---- MODULE Spec2Model ----
(***************************************************************************)
(* A model of the litedoc-core parser: the line lexer (lexer.rs), the      *)
(* inline parser (inline.rs) and the block parser with its facade          *)
(* (parser.rs).  The input is a sequence of bytes, each byte a one         *)
(* character string; offsets are 0-based byte offsets as in the source.    *)
(***************************************************************************)
EXTENDS Integers, Sequences, FiniteSets, TLC

(***************************************************************************)
(* Bounds of the model.                                                    *)
(***************************************************************************)
\* the largest number of lines of an input document
MaxLines == 3
\* the largest number of leading '#' bytes of a heading line
MaxHashes == 262
\* the largest number of pieces of an inline text run
MaxPieces == 4
\* the largest number of pieces of a metadata value
MaxAttrPieces == 3

(***************************************************************************)
(* Option values and byte-string helpers (Rust's str methods).             *)
(***************************************************************************)
None == <<>>
Some(x) == <<x>>
IsSome(o) == Len(o) > 0
IsNone(o) == Len(o) = 0
Unwrap(o) == o[1]

NoPos == -1

SetMin(S) == CHOOSE x \in S : \A y \in S : x <= y
SetMax(S) == CHOOSE x \in S : \A y \in S : x >= y
MinOf(a, b) == IF a <= b THEN a ELSE b

\* s[a..b] for 0-based byte offsets a <= b
Slice(s, a, b) == SubSeq(s, a + 1, b)
\* s[a..]
SliceFrom(s, a) == SubSeq(s, a + 1, Len(s))
\* the byte at 0-based offset i
ByteAt(s, i) == s[i + 1]

\* char::is_whitespace restricted to the bytes of the model's alphabet
WhiteSpace == {" ", "\t", "\n", "\r"}

\* number of leading / trailing whitespace bytes
LeadingWs(s) ==
    LET nonws == {i \in 1..Len(s) : s[i] \notin WhiteSpace}
    IN  IF nonws = {} THEN Len(s) ELSE SetMin(nonws) - 1
TrailingWs(s) ==
    LET nonws == {i \in 1..Len(s) : s[i] \notin WhiteSpace}
    IN  IF nonws = {} THEN Len(s) ELSE Len(s) - SetMax(nonws)

\* str::trim_start, str::trim
TrimStart(s) == SliceFrom(s, LeadingWs(s))
Trim(s) ==
    LET nonws == {i \in 1..Len(s) : s[i] \notin WhiteSpace}
    IN  IF nonws = {} THEN <<>> ELSE SubSeq(s, SetMin(nonws), SetMax(nonws))

\* str::starts_with, str::ends_with
StartsWith(s, p) == Len(s) >= Len(p) /\ SubSeq(s, 1, Len(p)) = p
EndsWith(s, p) == Len(s) >= Len(p) /\ SubSeq(s, Len(s) - Len(p) + 1, Len(s)) = p

\* str::find: 0-based offset of the first occurrence of p in s, or NoPos
Find(s, p) ==
    LET hits == {i \in 0..(Len(s) - Len(p)) : Slice(s, i, i + Len(p)) = p}
    IN  IF hits = {} THEN NoPos ELSE SetMin(hits)
Contains(s, p) == Find(s, p) /= NoPos

\* memchr(b, &s[from..]): offset relative to from of the first byte b, or NoPos
MemChr(b, s, from) ==
    LET hits == {i \in from..(Len(s) - 1) : ByteAt(s, i) = b}
    IN  IF hits = {} THEN NoPos ELSE SetMin(hits) - from

\* str::strip_prefix: the remainder as Some, or None
StripPrefix(s, p) == IF StartsWith(s, p) THEN Some(SliceFrom(s, Len(p))) ELSE None

\* str::split_whitespace().next().unwrap_or("")
FirstWord(s) ==
    LET t == TrimStart(s)
        ws == {i \in 1..Len(t) : t[i] \in WhiteSpace}
    IN  IF ws = {} THEN t ELSE SubSeq(t, 1, SetMin(ws) - 1)

(***************************************************************************)
(* span.rs                                                                 *)
(***************************************************************************)
Span(s, e) == [start |-> s, end |-> e]

(***************************************************************************)
(* lexer.rs: a Lexer is [offset, peeked]; a Line is [span] and its text is *)
(* the input between the span's offsets.                                   *)
(***************************************************************************)
LexerNew == [offset |-> 0, peeked |-> None]

LineText(input, line) == Slice(input, line.span.start, line.span.end)

\* Line::is_blank
IsBlank(input, line) == \A i \in line.span.start..(line.span.end - 1) : ByteAt(input, i) \in {" ", "\t"}

\* Line::trimmed
Trimmed(input, line) == Trim(LineText(input, line))

\* is_eof that looks at the offset only
IsEof_OffsetOnly(input, lx) == lx.offset >= Len(input)

\* Lexer::is_eof
IsEof(input, lx) == IsNone(lx.peeked) /\ lx.offset >= Len(input)

\* the functions below, called by name (defined after the last of them)
RECURSIVE Fn(_, _)

\* Lexer::read_line: the line read (an Option) and the new offset
ReadLine(input, offset) ==
    IF offset >= Len(input) THEN [line |-> None, offset |-> offset]
    ELSE LET start == offset
             nl == MemChr("\n", input, start)
             end == IF nl /= NoPos THEN start + nl ELSE Len(input)
             text_end == IF end > start /\ ByteAt(input, end - 1) = "\r" THEN end - 1 ELSE end
         IN  [line |-> Some([span |-> Span(start, text_end)]),
              offset |-> IF end < Len(input) THEN end + 1 ELSE end]

\* Lexer::peek_line: the lexer after the call; the line peeked is its peeked field
PeekLine(input, lx) ==
    IF IsNone(lx.peeked)
    THEN LET r == Fn("ReadLine", <<input, lx.offset>>) IN [offset |-> r.offset, peeked |-> r.line]
    ELSE lx

\* Lexer::next_line: the line returned (an Option) and the lexer after the call
NextLine(input, lx) ==
    IF IsSome(lx.peeked) THEN [line |-> lx.peeked, lx |-> [lx EXCEPT !.peeked = None]]
    ELSE LET r == Fn("ReadLine", <<input, lx.offset>>)
         IN  [line |-> r.line, lx |-> [offset |-> r.offset, peeked |-> None]]

\* Lexer::skip_blank_lines: the lexer after the call
RECURSIVE SkipBlankLines(_, _)
SkipBlankLines(input, lx) ==
    LET p == Fn("PeekLine", <<input, lx>>)
    IN  IF IsNone(p.peeked) THEN p
        ELSE IF ~IsBlank(input, Unwrap(p.peeked)) THEN p
        ELSE SkipBlankLines(input, Fn("NextLine", <<input, p>>).lx)

(***************************************************************************)
(* inline.rs: an InlineParser is the text run, its base offset and the     *)
(* loop state [pos, text_start, inlines]; a try_parse_* method returns the *)
(* loop state after the call together with its boolean result (parsed).    *)
(***************************************************************************)
\* the backquote byte 0x60, which a TLA+ string cannot hold
Backquote == "BQ"

Special == {"*", Backquote, "[", "\\", "~", "<"}

\* InlineParser::find_next_special
FindNextSpecial(text, pos) ==
    LET hits == {i \in pos..(Len(text) - 1) : ByteAt(text, i) \in Special}
    IN  IF hits = {} THEN Len(text) ELSE SetMin(hits)

\* InlineParser::make_text_borrowed
MakeTextBorrowed(text, base, start, end) ==
    [kind |-> "Text", content |-> Slice(text, start, end), span |-> Span(base + start, base + end)]

\* flush_text that pushes a Text node also when no text is pending
FlushText_Always(text, base, st) ==
    [st EXCEPT !.inlines = Append(@, MakeTextBorrowed(text, base, st.text_start, st.pos)),
               !.text_start = st.pos]

\* InlineParser::flush_text
FlushText(text, base, st) ==
    [st EXCEPT !.inlines = IF st.text_start < st.pos
                           THEN Append(@, MakeTextBorrowed(text, base, st.text_start, st.pos))
                           ELSE @,
               !.text_start = st.pos]

\* the state after a successful targeted parse that emitted node and ended at offset next
Emit(text, base, st, node, next) ==
    LET f == FlushText(text, base, st)
    IN  [parsed |-> TRUE, pos |-> next, text_start |-> next, inlines |-> Append(f.inlines, node)]

Failed(st) == [parsed |-> FALSE, pos |-> st.pos, text_start |-> st.text_start, inlines |-> st.inlines]

\* InlineParser::try_parse_escape
TryParseEscape(text, base, st) ==
    IF st.pos + 1 < Len(text)
    THEN [parsed |-> TRUE, pos |-> st.pos + 1, text_start |-> st.text_start, inlines |-> st.inlines]
    ELSE Failed(st)

\* InlineParser::try_parse_code_span
TryParseCodeSpan(text, base, st) ==
    LET start == st.pos
        close_offset == MemChr(Backquote, text, start + 1)
        close == start + 1 + close_offset
    IN  IF close_offset /= NoPos
        THEN Emit(text, base, st,
                  [kind |-> "CodeSpan", content |-> Slice(text, start + 1, close),
                   span |-> Span(base + start, base + close + 1)],
                  close + 1)
        ELSE Failed(st)

\* InlineParser::try_parse_link
TryParseLink(text, base, st) ==
    LET start == st.pos
        search_start == start + 2
        hits == {p \in search_start..(Len(text) - 2) : ByteAt(text, p) = "]" /\ ByteAt(text, p + 1) = "]"}
    IN  IF hits = {} THEN Failed(st)
        ELSE LET abs_pos == SetMin(hits)
                 content == Slice(text, search_start, abs_pos)
                 pipe_pos == Find(content, <<"|">>)
                 label_text == IF pipe_pos /= NoPos THEN Slice(content, 0, pipe_pos) ELSE content
                 url == IF pipe_pos /= NoPos THEN SliceFrom(content, pipe_pos + 1) ELSE content
                 label == <<[kind |-> "Text", content |-> label_text,
                             span |-> Span(base + search_start, base + search_start + Len(label_text))]>>
             IN  Emit(text, base, st,
                      [kind |-> "Link", label |-> label, url |-> url, title |-> None,
                       span |-> Span(base + start, base + abs_pos + 2)],
                      abs_pos + 2)

\* InlineParser::try_parse_footnote_ref
TryParseFootnoteRef(text, base, st) ==
    LET start == st.pos
        label_start == start + 2
        offset == MemChr("]", text, label_start)
        close == label_start + offset
    IN  IF offset /= NoPos
        THEN Emit(text, base, st,
                  [kind |-> "FootnoteRef", label |-> Slice(text, label_start, close),
                   span |-> Span(base + start, base + close + 1)],
                  close + 1)
        ELSE Failed(st)

\* InlineParser::try_parse_bracket
TryParseBracket(text, base, st) ==
    IF st.pos + 1 >= Len(text) THEN Failed(st)
    ELSE IF ByteAt(text, st.pos + 1) = "[" THEN Fn("TryParseLink", <<text, base, st>>)
    ELSE IF ByteAt(text, st.pos + 1) = "^" THEN Fn("TryParseFootnoteRef", <<text, base, st>>)
    ELSE Failed(st)

\* the offset of the closing double delimiter dd that try_parse_strong and
\* try_parse_tilde search for from content_start, or NoPos
DoubleClose(text, d, content_start) ==
    LET hits == {p \in content_start..(Len(text) - 1) :
                    /\ ByteAt(text, p) = d
                    /\ p + 1 < Len(text)
                    /\ ByteAt(text, p + 1) = d
                    /\ p > content_start
                    /\ ByteAt(text, p - 1) /= " "}
    IN  IF hits = {} THEN NoPos ELSE SetMin(hits)

\* the search loop of try_parse_emphasis from offset from: the offset of the
\* closing '*', or NoPos
RECURSIVE EmphasisClose(_, _, _)
EmphasisClose(text, content_start, from) ==
    LET offset == IF from <= Len(text) THEN MemChr("*", text, from) ELSE NoPos
        abs_pos == from + offset
    IN  IF offset = NoPos THEN NoPos
        ELSE IF abs_pos + 1 < Len(text) /\ ByteAt(text, abs_pos + 1) = "*"
             THEN EmphasisClose(text, content_start, abs_pos + 2)
        ELSE IF abs_pos > content_start /\ ByteAt(text, abs_pos - 1) /= " "
             THEN abs_pos
        ELSE EmphasisClose(text, content_start, abs_pos + 1)

RECURSIVE InlineParserParse(_, _)
RECURSIVE ParseLoop(_, _, _)

\* try_parse_strong (d = "*", kind = "Strong") and the delimiter part of
\* try_parse_tilde (d = "~", kind = "Strikethrough")
TryParseDouble(text, base, st, d, kind) ==
    LET start == st.pos
        content_start == start + 2
    IN  IF content_start >= Len(text) \/ ByteAt(text, content_start) = " " THEN Failed(st)
        ELSE LET abs_pos == DoubleClose(text, d, content_start)
             IN  IF abs_pos = NoPos THEN Failed(st)
                 ELSE Emit(text, base, st,
                           [kind |-> kind,
                            content |-> Fn("InlineParserParse", <<Slice(text, content_start, abs_pos),
                                                          base + content_start>>),
                            span |-> Span(base + start, base + abs_pos + 2)],
                           abs_pos + 2)

\* InlineParser::try_parse_strong
TryParseStrong(text, base, st) == Fn("TryParseDouble", <<text, base, st, "*", "Strong">>)

\* try_parse_emphasis without the test of the byte after the opener
TryParseEmphasis_AnyFirstByte(text, base, st) ==
    LET start == st.pos
        content_start == start + 1
    IN  IF content_start >= Len(text) THEN Failed(st)
        ELSE LET abs_pos == Fn("EmphasisClose", <<text, content_start, content_start>>)
             IN  IF abs_pos = NoPos THEN Failed(st)
                 ELSE Emit(text, base, st,
                           [kind |-> "Emphasis",
                            content |-> Fn("InlineParserParse", <<Slice(text, content_start, abs_pos),
                                                          base + content_start>>),
                            span |-> Span(base + start, base + abs_pos + 1)],
                           abs_pos + 1)

\* InlineParser::try_parse_emphasis
TryParseEmphasis(text, base, st) ==
    LET start == st.pos
        content_start == start + 1
    IN  IF content_start >= Len(text) \/ ByteAt(text, content_start) = " " THEN Failed(st)
        ELSE LET abs_pos == Fn("EmphasisClose", <<text, content_start, content_start>>)
             IN  IF abs_pos = NoPos THEN Failed(st)
                 ELSE Emit(text, base, st,
                           [kind |-> "Emphasis",
                            content |-> Fn("InlineParserParse", <<Slice(text, content_start, abs_pos),
                                                          base + content_start>>),
                            span |-> Span(base + start, base + abs_pos + 1)],
                           abs_pos + 1)

\* InlineParser::try_parse_asterisk
TryParseAsterisk(text, base, st) ==
    IF st.pos + 1 < Len(text) /\ ByteAt(text, st.pos + 1) = "*"
    THEN Fn("TryParseStrong", <<text, base, st>>)
    ELSE Fn("TryParseEmphasis", <<text, base, st>>)

\* InlineParser::try_parse_tilde
TryParseTilde(text, base, st) ==
    IF st.pos + 1 >= Len(text) \/ ByteAt(text, st.pos + 1) /= "~" THEN Failed(st)
    ELSE Fn("TryParseDouble", <<text, base, st, "~", "Strikethrough">>)

\* InlineParser::try_parse_autolink
TryParseAutolink(text, base, st) ==
    LET start == st.pos
        offset == MemChr(">", text, start + 1)
        close == start + 1 + offset
        url == Slice(text, start + 1, close)
    IN  IF /\ offset /= NoPos
           /\ (Contains(url, <<":", "/", "/">>) \/ StartsWith(url, <<"m", "a", "i", "l", "t", "o", ":">>))
           /\ ~Contains(url, <<" ">>)
           /\ ~Contains(url, <<"\n">>)
        THEN Emit(text, base, st,
                  [kind |-> "AutoLink", url |-> url, span |-> Span(base + start, base + close + 1)],
                  close + 1)
        ELSE Failed(st)

\* the targeted parse that InlineParser::parse dispatches to on the byte at st.pos
Dispatch(text, base, st) ==
    LET c == ByteAt(text, st.pos)
    IN  CASE c = "\\" -> Fn("TryParseEscape", <<text, base, st>>)
          [] c = Backquote -> Fn("TryParseCodeSpan", <<text, base, st>>)
          [] c = "[" -> Fn("TryParseBracket", <<text, base, st>>)
          [] c = "*" -> Fn("TryParseAsterisk", <<text, base, st>>)
          [] c = "~" -> Fn("TryParseTilde", <<text, base, st>>)
          [] c = "<" -> Fn("TryParseAutolink", <<text, base, st>>)
          [] OTHER -> Failed(st)

\* the while loop of InlineParser::parse: the loop state when it exits
ParseLoop(text, base, st) ==
    IF ~(st.pos < Len(text)) THEN st
    ELSE LET next_special == FindNextSpecial(text, st.pos)
         IN  IF next_special >= Len(text) THEN st
             ELSE LET r == Fn("Dispatch", <<text, base, [st EXCEPT !.pos = next_special]>>)
                  IN  ParseLoop(text, base,
                                [pos |-> IF r.parsed THEN r.pos ELSE r.pos + 1,
                                 text_start |-> r.text_start,
                                 inlines |-> r.inlines])

\* InlineParser::parse
InlineParserParse(text, base) ==
    LET st == Fn("ParseLoop", <<text, base, [pos |-> 0, text_start |-> 0, inlines |-> <<>>]>>)
    IN  IF st.text_start < Len(text)
        THEN Append(st.inlines, MakeTextBorrowed(text, base, st.text_start, Len(text)))
        ELSE st.inlines

\* inline::parse_inlines
ParseInlines(text, base_offset) ==
    IF text = <<>> THEN <<>> ELSE Fn("InlineParserParse", <<text, base_offset>>)

(***************************************************************************)
(* error.rs: a ParseError is [message, span, kind, recoverable].           *)
(***************************************************************************)
\* ParseError::unclosed_delimiter
UnclosedDelimiterError(delimiter, span) ==
    [message |-> <<"u", "n", "c", "l", "o", "s", "e", "d", " ">> \o delimiter, span |-> span,
     kind |-> "UnclosedDelimiter", recoverable |-> TRUE]

\* ParseError::invalid_syntax
InvalidSyntaxError(context, span) ==
    [message |-> <<"i", "n", "v", "a", "l", "i", "d", " ", "s", "y", "n", "t", "a", "x", " ", "i", "n", " ">> \o context, span |-> span,
     kind |-> "InvalidSyntax", recoverable |-> TRUE]

\* ParseError::unknown_directive with a message that leaves the name out
UnknownDirectiveError_NoName(directive, span) ==
    [message |-> <<"u", "n", "k", "n", "o", "w", "n", " ", "d", "i", "r", "e", "c", "t", "i", "v", "e">>, span |-> span,
     kind |-> "UnknownDirective", recoverable |-> TRUE]

\* ParseError::unknown_directive
UnknownDirectiveError(directive, span) ==
    [message |-> <<"u", "n", "k", "n", "o", "w", "n", " ", "d", "i", "r", "e", "c", "t", "i", "v", "e", ":", " ">> \o directive, span |-> span,
     kind |-> "UnknownDirective", recoverable |-> TRUE]

(***************************************************************************)
(* parser.rs.  A Parser is [profile, modules, errors, recover_on_error].   *)
(* A block handler takes the Parser P, the Lexer lx and the input, and     *)
(* returns [block, lx, errors]: the Option<Block> it returns, the lexer    *)
(* after the call and the Parser's error list after the call.  The string  *)
(* attributes of Callout and Figure (kind, title, src, alt, caption) are   *)
(* not part of the model.                                                  *)
(***************************************************************************)
\* Parser::new
ParserNew(profile) ==
    [profile |-> profile, modules |-> <<>>, errors |-> <<>>, recover_on_error |-> TRUE]

\* Parser::with_recovery
WithRecovery(P, recover) == [P EXCEPT !.recover_on_error = recover]

\* Parser::has_module
HasModule(P, module) == \E i \in 1..Len(P.modules) : P.modules[i] = module

\* Parser::record_error
RecordError(errors, error) == Append(errors, error)

Ret(block, lx, errors) == [block |-> block, lx |-> lx, errors |-> errors]

ParagraphNode(content, span) == [kind |-> "Paragraph", content |-> content, span |-> span]

\* the number of leading '#' bytes of text
CountHashes(text) ==
    LET other == {i \in 1..Len(text) : text[i] /= "#"}
    IN  IF other = {} THEN Len(text) ELSE SetMin(other) - 1

\* the heading level of parse_heading: the count of leading '#' bytes as u8
HeadingLevel(text) == CountHashes(text) % 256

\* the level test of parse_heading without its upper limit
IsHeadingLevel_NoUpperLimit(level) == level /= 0

\* the level test of parse_heading: the line is not demoted for its level
IsHeadingLevel(level) == ~(level = 0 \/ level > 6)

\* Parser::parse_heading
ParseHeading(P, lx, input) ==
    LET n == Fn("NextLine", <<input, lx>>)
    IN  IF IsNone(n.line) THEN Ret(None, n.lx, P.errors)
        ELSE LET line == Unwrap(n.line)
                 text == LineText(input, line)
                 level == HeadingLevel(text)
                 rest == SliceFrom(text, level)
                 content_text == TrimStart(rest)
                 content_offset == line.span.start + (Len(text) - Len(content_text))
                 para == ParagraphNode(Fn("ParseInlines", <<text, line.span.start>>), line.span)
             IN  IF ~IsHeadingLevel(level) THEN Ret(Some(para), n.lx, P.errors)
                 ELSE IF ~StartsWith(rest, <<" ">>) /\ rest /= <<>> THEN Ret(Some(para), n.lx, P.errors)
                 ELSE Ret(Some([kind |-> "Heading", level |-> level,
                                content |-> Fn("ParseInlines", <<content_text, content_offset>>),
                                span |-> line.span]),
                          n.lx, P.errors)

\* the content loop shared by parse_code_block, parse_html_block,
\* parse_math_block and parse_raw_fenced_block: lines are consumed up to and
\* including the first one whose trimmed text is closer.  st is
\* [lx, content_end, end_span, eof]; eof tells that the loop ended at EOF
RECURSIVE FenceLoop(_, _, _)
FenceLoop(input, closer, st) ==
    LET p == Fn("PeekLine", <<input, st.lx>>)
    IN  IF IsNone(p.peeked) THEN [st EXCEPT !.lx = p, !.eof = TRUE]
        ELSE LET line == Unwrap(p.peeked)
                 consumed == Fn("NextLine", <<input, p>>).lx
             IN  IF Trimmed(input, line) = closer
                 THEN [st EXCEPT !.lx = consumed, !.end_span = line.span]
                 ELSE FenceLoop(input, closer,
                                [st EXCEPT !.lx = consumed, !.end_span = line.span,
                                           !.content_end = line.span.end])

\* the content of a fenced block
FenceContent(input, content_start, content_end) ==
    IF content_start < content_end /\ content_end <= Len(input)
    THEN Slice(input, content_start, content_end)
    ELSE <<>>

\* the body of a fenced block whose opener line has span start_span
FenceBody(input, lx, closer, start_span) ==
    LET content_start == MinOf(start_span.end + 1, Len(input))
        st == Fn("FenceLoop", <<input, closer,
                        [lx |-> lx, content_end |-> content_start, end_span |-> start_span, eof |-> FALSE]>>)
    IN  [lx |-> st.lx, eof |-> st.eof,
         content |-> FenceContent(input, content_start, st.content_end),
         span |-> Span(start_span.start, st.end_span.end)]

\* parse_code_block that records an UnclosedDelimiter error at EOF, as parse_html_block does
ParseCodeBlock_UnclosedError(P, lx, input) ==
    LET n == Fn("NextLine", <<input, lx>>)
    IN  IF IsNone(n.line) THEN Ret(None, n.lx, P.errors)
        ELSE LET open_line == Unwrap(n.line)
                 text == LineText(input, open_line)
                 trimmed == Trim(text)
                 stripped == StripPrefix(trimmed, <<Backquote, Backquote, Backquote>>)
                 after_ticks == IF IsSome(stripped) THEN Unwrap(stripped) ELSE <<>>
                 lang == Trim(after_ticks)
                 found == Find(text, lang)
                 lang_offset == IF lang = <<>> THEN open_line.span.end
                                ELSE open_line.span.start + (IF found = NoPos THEN 0 ELSE found)
                 body == Fn("FenceBody", <<input, n.lx, <<Backquote, Backquote, Backquote>>, open_line.span>>)
             IN  Ret(Some([kind |-> "CodeBlock",
                           lang |-> Slice(input, lang_offset, lang_offset + Len(lang)),
                           content |-> body.content, span |-> body.span]),
                     body.lx,
                     IF body.eof
                     THEN RecordError(P.errors, UnclosedDelimiterError(<<"c", "o", "d", "e", " ", "b", "l", "o", "c", "k">>, Some(open_line.span)))
                     ELSE P.errors)

\* Parser::parse_code_block
ParseCodeBlock(P, lx, input) ==
    LET n == Fn("NextLine", <<input, lx>>)
    IN  IF IsNone(n.line) THEN Ret(None, n.lx, P.errors)
        ELSE LET open_line == Unwrap(n.line)
                 text == LineText(input, open_line)
                 trimmed == Trim(text)
                 stripped == StripPrefix(trimmed, <<Backquote, Backquote, Backquote>>)
                 after_ticks == IF IsSome(stripped) THEN Unwrap(stripped) ELSE <<>>
                 lang == Trim(after_ticks)
                 found == Find(text, lang)
                 lang_offset == IF lang = <<>> THEN open_line.span.end
                                ELSE open_line.span.start + (IF found = NoPos THEN 0 ELSE found)
                 body == Fn("FenceBody", <<input, n.lx, <<Backquote, Backquote, Backquote>>, open_line.span>>)
             IN  Ret(Some([kind |-> "CodeBlock",
                           lang |-> Slice(input, lang_offset, lang_offset + Len(lang)),
                           content |-> body.content, span |-> body.span]),
                     body.lx, P.errors)

\* Parser::parse_raw_fenced_block
ParseRawFencedBlock(P, lx, input) ==
    LET n == Fn("NextLine", <<input, lx>>)
    IN  IF IsNone(n.line) THEN Ret(None, n.lx, P.errors)
        ELSE LET body == Fn("FenceBody", <<input, n.lx, <<":", ":">>, Unwrap(n.line).span>>)
             IN  Ret(Some([kind |-> "Raw", content |-> body.content, span |-> body.span]),
                     body.lx, P.errors)

\* Parser::parse_math_block
ParseMathBlock(P, lx, input) ==
    LET n == Fn("NextLine", <<input, lx>>)
    IN  IF IsNone(n.line) THEN Ret(None, n.lx, P.errors)
        ELSE LET open_line == Unwrap(n.line)
                 trimmed == Trim(LineText(input, open_line))
                 d == Contains(trimmed, <<"b", "l", "o", "c", "k">>) \/ Contains(trimmed, <<"d", "i", "s", "p", "l", "a", "y">>)
                 body == Fn("FenceBody", <<input, n.lx, <<":", ":">>, open_line.span>>)
             IN  Ret(Some([kind |-> "Math", display |-> d, content |-> body.content,
                           span |-> body.span]),
                     body.lx, P.errors)

\* Parser::parse_html_block
ParseHtmlBlock(P, lx, input) ==
    IF ~HasModule(P, "Html") THEN Fn("ParseRawFencedBlock", <<P, lx, input>>)
    ELSE LET n == Fn("NextLine", <<input, lx>>)
         IN  IF IsNone(n.line) THEN Ret(None, n.lx, P.errors)
             ELSE LET start_span == Unwrap(n.line).span
                      body == Fn("FenceBody", <<input, n.lx, <<":", ":">>, start_span>>)
                  IN  Ret(Some([kind |-> "Html", content |-> body.content, span |-> body.span]),
                          body.lx,
                          IF body.eof
                          THEN RecordError(P.errors,
                                           UnclosedDelimiterError(<<"H", "T", "M", "L", " ", "b", "l", "o", "c", "k">>, Some(start_span)))
                          ELSE P.errors)


\* the closure finalize_item of parse_list_block: the items after the call
FinalizeItem(input, items, start, end) ==
    IF IsSome(start)
    THEN LET s == Unwrap(start)
             content == Fn("ParseInlines", <<Slice(input, s, end), s>>)
         IN  Append(items, [kind |-> "ListItem",
                            blocks |-> <<ParagraphNode(content, Span(s, end))>>,
                            span |-> Span(s, end)])
    ELSE items

\* the breaker test of parse_list_block without the test for '#'
IsListBreaker_NoHeading(trimmed) ==
    \/ StartsWith(trimmed, <<":", ":">>)
    \/ StartsWith(trimmed, <<Backquote, Backquote, Backquote>>)
    \/ StartsWith(trimmed, <<"@", "p", "r", "o", "f", "i", "l", "e">>)
    \/ StartsWith(trimmed, <<"@", "m", "o", "d", "u", "l", "e", "s">>)
    \/ trimmed = <<"-", "-", "-">>
    \/ StartsWith(trimmed, <<"-", "-", "-", " ", "m", "e", "t", "a", " ", "-", "-", "-">>)

\* the lines that end a list with an UnclosedDelimiter error
IsListBreaker(trimmed) ==
    \/ StartsWith(trimmed, <<":", ":">>)
    \/ StartsWith(trimmed, <<Backquote, Backquote, Backquote>>)
    \/ StartsWith(trimmed, <<"#">>)
    \/ StartsWith(trimmed, <<"@", "p", "r", "o", "f", "i", "l", "e">>)
    \/ StartsWith(trimmed, <<"@", "m", "o", "d", "u", "l", "e", "s">>)
    \/ trimmed = <<"-", "-", "-">>
    \/ StartsWith(trimmed, <<"-", "-", "-", " ", "m", "e", "t", "a", " ", "-", "-", "-">>)

\* the end of a list that a breaker line ends, taken from the breaker line
ErrorEndSpan_BreakerLine(last_span, line_span) == line_span

\* the end span of a list that an error ends: the last line that belongs to it
ErrorEndSpan(last_span, line_span) == last_span

\* the while loop of parse_list_block; st is
\* [lx, errors, items, item_start, item_end, end_span, last_span]
RECURSIVE ListLoop(_, _, _)
ListLoop(input, start_span, st) ==
    LET p == Fn("PeekLine", <<input, st.lx>>)
    IN  IF IsNone(p.peeked) THEN [st EXCEPT !.lx = p]
        ELSE LET line == Unwrap(p.peeked)
                 text == LineText(input, line)
                 trimmed == Trim(text)
                 consumed == Fn("NextLine", <<input, p>>).lx
                 finalized == Fn("FinalizeItem", <<input, st.items, st.item_start, st.item_end>>)
             IN  IF trimmed = <<":", ":">>
                 THEN [st EXCEPT !.lx = consumed, !.items = finalized, !.item_start = None,
                                 !.end_span = line.span]
                 ELSE IF StartsWith(trimmed, <<"-", " ">>)
                 THEN LET found == Find(text, <<"-", " ">>)
                          dash_offset == IF found = NoPos THEN 0 ELSE found
                      IN  ListLoop(input, start_span,
                                   [st EXCEPT !.lx = consumed, !.items = finalized,
                                              !.item_start = Some(line.span.start + dash_offset + 2),
                                              !.item_end = line.span.end,
                                              !.last_span = line.span, !.end_span = line.span])
                 ELSE IF StartsWith(trimmed, <<"|", " ">>)
                 THEN ListLoop(input, start_span,
                               [st EXCEPT !.lx = consumed, !.item_end = line.span.end,
                                          !.last_span = line.span, !.end_span = line.span])
                 ELSE IF IsBlank(input, line)
                 THEN ListLoop(input, start_span,
                               [st EXCEPT !.lx = consumed,
                                          !.last_span = line.span, !.end_span = line.span])
                 ELSE IF IsListBreaker(trimmed)
                 THEN [st EXCEPT !.lx = p, !.items = finalized, !.item_start = None,
                                 !.errors = RecordError(@, UnclosedDelimiterError(<<":", ":", "l", "i", "s", "t">>, Some(start_span))),
                                 !.end_span = ErrorEndSpan(st.last_span, line.span)]
                 ELSE [st EXCEPT !.lx = p, !.items = finalized, !.item_start = None,
                                 !.errors = RecordError(@, InvalidSyntaxError(<<"l", "i", "s", "t", " ", "i", "t", "e", "m">>, Some(line.span))),
                                 !.end_span = ErrorEndSpan(st.last_span, line.span)]

\* the words of s (str::split_whitespace)
RECURSIVE SplitWhitespace(_)
SplitWhitespace(s) ==
    LET t == TrimStart(s)
    IN  IF t = <<>> THEN <<>>
        ELSE LET w == FirstWord(t) IN <<w>> \o SplitWhitespace(SliceFrom(t, Len(w)))

Digits == {"0", "1", "2", "3", "4", "5", "6", "7", "8", "9"}
DigitValue(c) == CHOOSE v \in 0..9 : <<"0", "1", "2", "3", "4", "5", "6", "7", "8", "9">>[v + 1] = c

\* the decimal digits s without their leading zeros
RECURSIVE StripZeros(_)
StripZeros(s) == IF s /= <<>> /\ Head(s) = "0" THEN StripZeros(Tail(s)) ELSE s

\* a <= b for two digit strings of the same length
RECURSIVE DigitsLeq(_, _)
DigitsLeq(a, b) ==
    IF a = <<>> THEN TRUE
    ELSE IF DigitValue(Head(a)) /= DigitValue(Head(b)) THEN DigitValue(Head(a)) < DigitValue(Head(b))
    ELSE DigitsLeq(Tail(a), Tail(b))

\* u64::MAX in decimal
U64Max == <<"1", "8", "4", "4", "6", "7", "4", "4", "0", "7", "3", "7", "0", "9", "5", "5", "1", "6", "1", "5">>

\* str::parse::<u64>().ok(): the value is kept as its decimal digits without
\* leading zeros (the empty string of digits is the value 0)
ParseU64(s) ==
    LET digits == IF StartsWith(s, <<"+">>) THEN Tail(s) ELSE s
        value == StripZeros(digits)
    IN  IF /\ digits /= <<>>
           /\ \A i \in 1..Len(digits) : digits[i] \in Digits
           /\ (Len(value) < Len(U64Max) \/ (Len(value) = Len(U64Max) /\ DigitsLeq(value, U64Max)))
        THEN Some(value)
        ELSE None

\* the attribute loop of parse_list_block over the words after "::list"
RECURSIVE ListAttrs(_, _)
ListAttrs(parts, acc) ==
    IF parts = <<>> THEN acc
    ELSE LET part == Head(parts)
         IN  ListAttrs(Tail(parts),
                       IF part = <<"o", "r", "d", "e", "r", "e", "d">> THEN [acc EXCEPT !.kind = "Ordered"]
                       ELSE IF part = <<"u", "n", "o", "r", "d", "e", "r", "e", "d">> THEN [acc EXCEPT !.kind = "Unordered"]
                       ELSE IF StartsWith(part, <<"s", "t", "a", "r", "t", "=">>)
                            THEN [acc EXCEPT !.start = Fn("ParseU64", <<SliceFrom(part, 6)>>)]
                       ELSE acc)

\* Parser::parse_list_block
ParseListBlock(P, lx, input) ==
    LET n == Fn("NextLine", <<input, lx>>)
    IN  IF IsNone(n.line) THEN Ret(None, n.lx, P.errors)
        ELSE LET start_span == Unwrap(n.line).span
                 trimmed == Trim(LineText(input, Unwrap(n.line)))
                 stripped == StripPrefix(trimmed, <<":", ":", "l", "i", "s", "t">>)
                 after_list == Trim(IF IsSome(stripped) THEN Unwrap(stripped) ELSE <<>>)
                 attrs == Fn("ListAttrs", <<SplitWhitespace(after_list), [kind |-> "Unordered", start |-> None]>>)
                 st == Fn("ListLoop", <<input, start_span,
                                [lx |-> n.lx, errors |-> P.errors, items |-> <<>>,
                                 item_start |-> None, item_end |-> start_span.end,
                                 end_span |-> start_span, last_span |-> start_span]>>)
             IN  Ret(Some([kind |-> "List", list_kind |-> attrs.kind, start |-> attrs.start,
                           items |-> st.items,
                           span |-> Span(start_span.start, st.end_span.end)]),
                     st.lx, st.errors)

\* the pending paragraph of parse_until_fence_close appended to blocks
PushPending(input, blocks, para_start, para_end) ==
    IF IsSome(para_start)
    THEN LET start == Unwrap(para_start)
         IN  Append(blocks, ParagraphNode(Fn("ParseInlines", <<Slice(input, start, para_end), start>>),
                                          Span(start, para_end)))
    ELSE blocks

\* the loop of parse_until_fence_close; st is [lx, blocks, para_start, para_end, end_span]
RECURSIVE UntilLoop(_, _)
UntilLoop(input, st) ==
    LET n == Fn("NextLine", <<input, st.lx>>)
    IN  IF IsNone(n.line) THEN [st EXCEPT !.lx = n.lx]
        ELSE LET line == Unwrap(n.line)
                 span == line.span
             IN  IF Trimmed(input, line) = <<":", ":">>
                 THEN [st EXCEPT !.lx = n.lx,
                                 !.blocks = Fn("PushPending", <<input, @, st.para_start, st.para_end>>),
                                 !.end_span = span]
                 ELSE IF IsBlank(input, line)
                 THEN UntilLoop(input,
                                [st EXCEPT !.lx = n.lx,
                                           !.blocks = Fn("PushPending", <<input, @, st.para_start, st.para_end>>),
                                           !.para_start = None,
                                           !.end_span = span])
                 ELSE UntilLoop(input,
                                [st EXCEPT !.lx = n.lx,
                                           !.para_start = IF IsNone(@) THEN Some(span.start) ELSE @,
                                           !.para_end = span.end,
                                           !.end_span = span])

\* Parser::parse_until_fence_close: [lx, blocks, end_span]
ParseUntilFenceClose(P, lx, input) ==
    LET st == Fn("UntilLoop", <<input, [lx |-> lx, blocks |-> <<>>, para_start |-> None,
                                para_end |-> 0, end_span |-> Span(0, 0)]>>)
    IN  [lx |-> st.lx, blocks |-> st.blocks, end_span |-> st.end_span]

\* Parser::parse_callout_block
ParseCalloutBlock(P, lx, input) ==
    LET n == Fn("NextLine", <<input, lx>>)
    IN  IF IsNone(n.line) THEN Ret(None, n.lx, P.errors)
        ELSE LET start_span == Unwrap(n.line).span
                 body == Fn("ParseUntilFenceClose", <<P, n.lx, input>>)
             IN  Ret(Some([kind |-> "Callout", blocks |-> body.blocks,
                           span |-> Span(start_span.start, body.end_span.end)]),
                     body.lx, P.errors)

\* Parser::parse_quote_block with the span of the opening line alone
ParseQuoteBlock_OpenerSpan(P, lx, input) ==
    LET n == Fn("NextLine", <<input, lx>>)
    IN  IF IsNone(n.line) THEN Ret(None, n.lx, P.errors)
        ELSE LET start_span == Unwrap(n.line).span
                 body == Fn("ParseUntilFenceClose", <<P, n.lx, input>>)
             IN  Ret(Some([kind |-> "Quote", blocks |-> body.blocks,
                           span |-> start_span]),
                     body.lx, P.errors)

\* Parser::parse_quote_block
ParseQuoteBlock(P, lx, input) ==
    LET n == Fn("NextLine", <<input, lx>>)
    IN  IF IsNone(n.line) THEN Ret(None, n.lx, P.errors)
        ELSE LET start_span == Unwrap(n.line).span
                 body == Fn("ParseUntilFenceClose", <<P, n.lx, input>>)
             IN  Ret(Some([kind |-> "Quote", blocks |-> body.blocks,
                           span |-> Span(start_span.start, body.end_span.end)]),
                     body.lx, P.errors)

\* Parser::parse_figure_block
ParseFigureBlock(P, lx, input) ==
    LET n == Fn("NextLine", <<input, lx>>)
    IN  IF IsNone(n.line) THEN Ret(None, n.lx, P.errors)
        ELSE LET start_span == Unwrap(n.line).span
                 p == Fn("PeekLine", <<input, n.lx>>)
                 closes == IsSome(p.peeked) /\ Trimmed(input, Unwrap(p.peeked)) = <<":", ":">>
                 end_span == IF closes THEN Unwrap(p.peeked).span ELSE start_span
             IN  Ret(Some([kind |-> "Figure", span |-> Span(start_span.start, end_span.end)]),
                     IF closes THEN Fn("NextLine", <<input, p>>).lx ELSE p,
                     P.errors)


\* str::split on the byte sep: the parts in order
RECURSIVE Split(_, _)
Split(s, sep) ==
    LET i == MemChr(sep, s, 0)
    IN  IF i = NoPos THEN <<s>> ELSE <<Slice(s, 0, i)>> \o Split(SliceFrom(s, i + 1), sep)

\* the for loop of parse_table_row from part i on (0-based), with the running offset
RECURSIVE TableRowLoop(_, _, _, _)
TableRowLoop(parts, i, offset, cells) ==
    IF i >= Len(parts) THEN cells
    ELSE LET part == parts[i + 1]
             trimmed == Trim(part)
             next == offset + Len(part) + 1
         IN  IF i = 0 THEN TableRowLoop(parts, i + 1, next, cells)
             ELSE IF trimmed = <<>> THEN TableRowLoop(parts, i + 1, next, cells)
             ELSE TableRowLoop(parts, i + 1, next,
                               Append(cells, [kind |-> "TableCell",
                                              content |-> Fn("ParseInlines", <<trimmed, offset>>),
                                              span |-> Span(offset, offset + Len(part))]))

\* Parser::parse_table_row
ParseTableRow(line, base_offset) == Fn("TableRowLoop", <<Split(line, "|"), 0, base_offset, <<>>>>)

\* the loop of parse_table_block that marks every row before the separator as a header
RECURSIVE TableLoop_HeaderUntilSeparator(_, _, _)
TableLoop_HeaderUntilSeparator(input, start_span, st) ==
    LET p == Fn("PeekLine", <<input, st.lx>>)
    IN  IF IsNone(p.peeked) THEN [st EXCEPT !.lx = p]
        ELSE LET line == Unwrap(p.peeked)
                 span == line.span
                 trimmed == Trim(LineText(input, line))
                 is_close == trimmed = <<":", ":">>
                 is_sep == StartsWith(trimmed, <<"|">>) /\ Contains(trimmed, <<"-", "-", "-">>)
                 is_row == StartsWith(trimmed, <<"|">>)
                 consumed == Fn("NextLine", <<input, p>>).lx
             IN  IF is_close THEN [st EXCEPT !.lx = consumed, !.end_span = span]
                 ELSE IF is_sep
                 THEN TableLoop_HeaderUntilSeparator(input, start_span,
                                [st EXCEPT !.lx = consumed, !.found_separator = TRUE, !.end_span = span])
                 ELSE IF is_row
                 THEN TableLoop_HeaderUntilSeparator(input, start_span,
                                [st EXCEPT !.lx = consumed,
                                           !.rows = Append(@, [kind |-> "TableRow",
                                                               cells |-> Fn("ParseTableRow", <<trimmed, span.start>>),
                                                               header |-> ~st.found_separator,
                                                               span |-> span]),
                                           !.end_span = span])
                 ELSE [st EXCEPT !.lx = p,
                                 !.errors = RecordError(@, UnclosedDelimiterError(<<":", ":", "t", "a", "b", "l", "e">>, Some(start_span)))]

\* the loop of parse_table_block; st is [lx, errors, rows, end_span, found_separator]
RECURSIVE TableLoop(_, _, _)
TableLoop(input, start_span, st) ==
    LET p == Fn("PeekLine", <<input, st.lx>>)
    IN  IF IsNone(p.peeked) THEN [st EXCEPT !.lx = p]
        ELSE LET line == Unwrap(p.peeked)
                 span == line.span
                 trimmed == Trim(LineText(input, line))
                 is_close == trimmed = <<":", ":">>
                 is_sep == StartsWith(trimmed, <<"|">>) /\ Contains(trimmed, <<"-", "-", "-">>)
                 is_row == StartsWith(trimmed, <<"|">>)
                 consumed == Fn("NextLine", <<input, p>>).lx
             IN  IF is_close THEN [st EXCEPT !.lx = consumed, !.end_span = span]
                 ELSE IF is_sep
                 THEN TableLoop(input, start_span,
                                [st EXCEPT !.lx = consumed, !.found_separator = TRUE, !.end_span = span])
                 ELSE IF is_row
                 THEN TableLoop(input, start_span,
                                [st EXCEPT !.lx = consumed,
                                           !.rows = Append(@, [kind |-> "TableRow",
                                                               cells |-> Fn("ParseTableRow", <<trimmed, span.start>>),
                                                               header |-> ~st.found_separator /\ st.rows = <<>>,
                                                               span |-> span]),
                                           !.end_span = span])
                 ELSE [st EXCEPT !.lx = p,
                                 !.errors = RecordError(@, UnclosedDelimiterError(<<":", ":", "t", "a", "b", "l", "e">>, Some(start_span)))]

\* Parser::parse_table_block
ParseTableBlock(P, lx, input) ==
    LET n == Fn("NextLine", <<input, lx>>)
    IN  IF IsNone(n.line) THEN Ret(None, n.lx, P.errors)
        ELSE LET start_span == Unwrap(n.line).span
                 st == Fn("TableLoop", <<input, start_span,
                                 [lx |-> n.lx, errors |-> P.errors, rows |-> <<>>,
                                  end_span |-> start_span, found_separator |-> FALSE]>>)
             IN  Ret(Some([kind |-> "Table", rows |-> st.rows,
                           span |-> Span(start_span.start, st.end_span.end)]),
                     st.lx, st.errors)

\* the loop of parse_footnotes_block; st is [lx, defs, end_span]
RECURSIVE FootnotesLoop(_, _)
FootnotesLoop(input, st) ==
    LET p == Fn("PeekLine", <<input, st.lx>>)
    IN  IF IsNone(p.peeked) THEN [st EXCEPT !.lx = p]
        ELSE LET line == Unwrap(p.peeked)
                 span == line.span
                 trimmed == Trim(LineText(input, line))
                 bracket_end == Find(trimmed, <<"]", ":">>)
                 is_def == StartsWith(trimmed, <<"[", "^">>) /\ bracket_end /= NoPos
                 label == Slice(trimmed, 2, bracket_end)
                 content_text == Trim(SliceFrom(trimmed, bracket_end + 2))
                 consumed == Fn("NextLine", <<input, p>>).lx
             IN  IF trimmed = <<":", ":">> THEN [st EXCEPT !.lx = consumed, !.end_span = span]
                 ELSE FootnotesLoop(input,
                         [st EXCEPT !.lx = consumed,
                                    !.defs = IF is_def
                                             THEN Append(@, [kind |-> "FootnoteDef", label |-> label,
                                                             blocks |-> <<ParagraphNode(
                                                                 Fn("ParseInlines", <<content_text, span.start>>), span)>>,
                                                             span |-> span])
                                             ELSE @,
                                    !.end_span = span])

\* Parser::parse_footnotes_block
ParseFootnotesBlock(P, lx, input) ==
    LET n == Fn("NextLine", <<input, lx>>)
    IN  IF IsNone(n.line) THEN Ret(None, n.lx, P.errors)
        ELSE LET start_span == Unwrap(n.line).span
                 st == Fn("FootnotesLoop", <<input, [lx |-> n.lx, defs |-> <<>>, end_span |-> start_span]>>)
             IN  Ret(Some([kind |-> "Footnotes", defs |-> st.defs,
                           span |-> Span(start_span.start, st.end_span.end)]),
                     st.lx, P.errors)

\* the test of parse_paragraph on the peeked line: the paragraph ends before it
ShouldBreak(input, peeked) ==
    IF IsNone(peeked) THEN TRUE
    ELSE LET line == Unwrap(peeked)
             trimmed == Trimmed(input, line)
         IN  IF IsBlank(input, line) THEN TRUE
             ELSE IF trimmed = <<>> THEN FALSE
             ELSE IF trimmed[1] = "#" \/ trimmed[1] = ":" THEN TRUE
             ELSE IF trimmed[1] = Backquote /\ StartsWith(trimmed, <<Backquote, Backquote, Backquote>>) THEN TRUE
             ELSE IF trimmed[1] = "-" /\ trimmed = <<"-", "-", "-">> THEN TRUE
             ELSE FALSE

\* the loop of parse_paragraph; st is [lx, start_span, end_span]
RECURSIVE ParagraphLoop(_, _)
ParagraphLoop(input, st) ==
    LET p == Fn("PeekLine", <<input, st.lx>>)
    IN  IF Fn("ShouldBreak", <<input, p.peeked>>) THEN [st EXCEPT !.lx = p]
        ELSE LET n == Fn("NextLine", <<input, p>>)
                 line == Unwrap(n.line)
             IN  ParagraphLoop(input,
                               [lx |-> n.lx,
                                start_span |-> IF IsNone(st.start_span) THEN Some(line.span) ELSE st.start_span,
                                end_span |-> line.span])

\* Parser::parse_paragraph
ParseParagraph(P, lx, input) ==
    LET st == Fn("ParagraphLoop", <<input, [lx |-> lx, start_span |-> None, end_span |-> Span(0, 0)]>>)
    IN  IF IsNone(st.start_span) THEN Ret(None, st.lx, P.errors)
        ELSE LET start == Unwrap(st.start_span)
                 content == Fn("ParseInlines", <<Slice(input, start.start, st.end_span.end), start.start>>)
             IN  Ret(Some(ParagraphNode(content, Span(start.start, st.end_span.end))), st.lx, P.errors)

\* the directive name that parse_fenced_block reads from the trimmed opener
\* line (an Option: None when the line does not start with "::")
BlockType(trimmed) ==
    LET after_colons == StripPrefix(trimmed, <<":", ":">>)
    IN  IF IsNone(after_colons) THEN None ELSE Some(FirstWord(Unwrap(after_colons)))

\* Parser::parse_fenced_block
ParseFencedBlock(P, lx, input) ==
    LET p == Fn("PeekLine", <<input, lx>>)
    IN  IF IsNone(p.peeked) THEN Ret(None, p, P.errors)
        ELSE LET line == Unwrap(p.peeked)
                 bt == BlockType(Trimmed(input, line))
             IN  IF IsNone(bt) THEN Ret(None, p, P.errors)
                 ELSE LET block_type == Unwrap(bt)
                      IN  CASE block_type = <<"l", "i", "s", "t">> -> Fn("ParseListBlock", <<P, p, input>>)
                            [] block_type = <<"c", "a", "l", "l", "o", "u", "t">> -> Fn("ParseCalloutBlock", <<P, p, input>>)
                            [] block_type = <<"q", "u", "o", "t", "e">> -> Fn("ParseQuoteBlock", <<P, p, input>>)
                            [] block_type = <<"f", "i", "g", "u", "r", "e">> -> Fn("ParseFigureBlock", <<P, p, input>>)
                            [] block_type = <<"t", "a", "b", "l", "e">> -> Fn("ParseTableBlock", <<P, p, input>>)
                            [] block_type = <<"f", "o", "o", "t", "n", "o", "t", "e", "s">> -> Fn("ParseFootnotesBlock", <<P, p, input>>)
                            [] block_type = <<"m", "a", "t", "h">> -> Fn("ParseMathBlock", <<P, p, input>>)
                            [] block_type = <<"h", "t", "m", "l">> -> Fn("ParseHtmlBlock", <<P, p, input>>)
                            [] OTHER ->
                                Fn("ParseRawFencedBlock", <<
                                    [P EXCEPT !.errors =
                                        IF P.recover_on_error /\ block_type /= <<>>
                                        THEN RecordError(@, UnknownDirectiveError(block_type, Some(line.span)))
                                        ELSE @],
                                    p, input>>)

\* Parser::parse_block
ParseBlock(P, lx, input) ==
    LET p == Fn("PeekLine", <<input, lx>>)
    IN  IF IsNone(p.peeked) THEN Ret(None, p, P.errors)
        ELSE LET line == Unwrap(p.peeked)
                 trimmed == Trimmed(input, line)
                 first_byte == IF trimmed = <<>> THEN None ELSE Some(trimmed[1])
             IN  IF first_byte = Some("#") THEN Fn("ParseHeading", <<P, p, input>>)
                 ELSE IF first_byte = Some(Backquote) /\ StartsWith(trimmed, <<Backquote, Backquote, Backquote>>)
                      THEN Fn("ParseCodeBlock", <<P, p, input>>)
                 ELSE IF first_byte = Some("-") /\ trimmed = <<"-", "-", "-">>
                      THEN Ret(Some([kind |-> "ThematicBreak", span |-> line.span]),
                               Fn("NextLine", <<input, p>>).lx, P.errors)
                 ELSE IF first_byte = Some(":") /\ StartsWith(trimmed, <<":", ":">>)
                      THEN Fn("ParseFencedBlock", <<P, p, input>>)
                 ELSE Fn("ParseParagraph", <<P, p, input>>)


\* parse_profile_directive that consumes the line whatever value it names
ParseProfileDirective_ConsumesUnknown(P, lx, input) ==
    LET p == Fn("PeekLine", <<input, lx>>)
    IN  IF IsNone(p.peeked) THEN [profile |-> None, lx |-> p]
        ELSE LET rest == StripPrefix(Trimmed(input, Unwrap(p.peeked)), <<"@", "p", "r", "o", "f", "i", "l", "e">>)
                 name == Trim(Unwrap(rest))
                 profile == IF name = <<"l", "i", "t", "e", "d", "o", "c">> THEN Some("Litedoc")
                            ELSE IF name = <<"m", "d">> THEN Some("Md")
                            ELSE IF name = <<"m", "d", "-", "s", "t", "r", "i", "c", "t">> THEN Some("MdStrict")
                            ELSE None
             IN  IF IsNone(rest) THEN [profile |-> None, lx |-> p]
                 ELSE [profile |-> profile, lx |-> Fn("SkipBlankLines", <<input, Fn("NextLine", <<input, p>>).lx>>)]

\* Parser::parse_profile_directive: [profile, lx]
ParseProfileDirective(P, lx, input) ==
    LET p == Fn("PeekLine", <<input, lx>>)
    IN  IF IsNone(p.peeked) THEN [profile |-> None, lx |-> p]
        ELSE LET rest == StripPrefix(Trimmed(input, Unwrap(p.peeked)), <<"@", "p", "r", "o", "f", "i", "l", "e">>)
                 name == Trim(Unwrap(rest))
                 profile == IF name = <<"l", "i", "t", "e", "d", "o", "c">> THEN Some("Litedoc")
                            ELSE IF name = <<"m", "d">> THEN Some("Md")
                            ELSE IF name = <<"m", "d", "-", "s", "t", "r", "i", "c", "t">> THEN Some("MdStrict")
                            ELSE None
             IN  IF IsNone(rest) THEN [profile |-> None, lx |-> p]
                 ELSE IF IsSome(profile)
                      THEN [profile |-> profile, lx |-> Fn("SkipBlankLines", <<input, Fn("NextLine", <<input, p>>).lx>>)]
                 ELSE [profile |-> None, lx |-> p]

\* the module named by one token of the @modules line (an Option)
ModuleOf(token) ==
    CASE token = <<"t", "a", "b", "l", "e", "s">> -> Some("Tables")
      [] token = <<"f", "o", "o", "t", "n", "o", "t", "e", "s">> -> Some("Footnotes")
      [] token = <<"m", "a", "t", "h">> -> Some("Math")
      [] token = <<"t", "a", "s", "k", "s">> -> Some("Tasks")
      [] token = <<"s", "t", "r", "i", "k", "e", "t", "h", "r", "o", "u", "g", "h">> -> Some("Strikethrough")
      [] token = <<"a", "u", "t", "o", "l", "i", "n", "k">> -> Some("Autolink")
      [] token = <<"h", "t", "m", "l">> -> Some("Html")
      [] OTHER -> None

\* the for loop of parse_modules_directive over the parts of the line
RECURSIVE ModulesOf(_)
ModulesOf(parts) ==
    IF parts = <<>> THEN <<>> ELSE ModuleOf(Trim(Head(parts))) \o ModulesOf(Tail(parts))

\* parse_modules_directive that consumes every modules line that follows, not one
RECURSIVE ParseModulesDirective_ConsumesAll(_, _, _)
ParseModulesDirective_ConsumesAll(P, lx, input) ==
    LET p == Fn("PeekLine", <<input, lx>>)
    IN  IF IsNone(p.peeked) THEN [modules |-> <<>>, lx |-> p]
        ELSE LET rest == StripPrefix(Trimmed(input, Unwrap(p.peeked)), <<"@", "m", "o", "d", "u", "l", "e", "s">>)
             IN  IF IsNone(rest) THEN [modules |-> <<>>, lx |-> p]
                 ELSE LET more == ParseModulesDirective_ConsumesAll(
                                      P, Fn("SkipBlankLines", <<input, Fn("NextLine", <<input, p>>).lx>>), input)
                      IN  [modules |-> ModulesOf(Split(Unwrap(rest), ",")) \o more.modules,
                           lx |-> more.lx]

\* Parser::parse_modules_directive: [modules, lx]
ParseModulesDirective(P, lx, input) ==
    LET p == Fn("PeekLine", <<input, lx>>)
    IN  IF IsNone(p.peeked) THEN [modules |-> <<>>, lx |-> p]
        ELSE LET rest == StripPrefix(Trimmed(input, Unwrap(p.peeked)), <<"@", "m", "o", "d", "u", "l", "e", "s">>)
             IN  IF IsNone(rest) THEN [modules |-> <<>>, lx |-> p]
                 ELSE [modules |-> ModulesOf(Split(Unwrap(rest), ",")),
                       lx |-> Fn("SkipBlankLines", <<input, Fn("NextLine", <<input, p>>).lx>>)]

\* i64::MAX and the magnitude of i64::MIN in decimal
I64Max == <<"9", "2", "2", "3", "3", "7", "2", "0", "3", "6", "8", "5", "4", "7", "7", "5", "8", "0", "7">>
I64MinMagnitude == <<"9", "2", "2", "3", "3", "7", "2", "0", "3", "6", "8", "5", "4", "7", "7", "5", "8", "0", "8">>

\* str::parse::<i64>().ok(): the value is kept as its sign and its decimal
\* digits without leading zeros (the empty string of digits is the value 0)
ParseI64(s) ==
    LET negative == StartsWith(s, <<"-">>)
        digits == IF negative \/ StartsWith(s, <<"+">>) THEN Tail(s) ELSE s
        value == StripZeros(digits)
        limit == IF negative THEN I64MinMagnitude ELSE I64Max
    IN  IF /\ digits /= <<>>
           /\ \A i \in 1..Len(digits) : digits[i] \in Digits
           /\ (Len(value) < Len(limit) \/ (Len(value) = Len(limit) /\ DigitsLeq(value, limit)))
        THEN Some([negative |-> negative /\ value /= <<>>, digits |-> value])
        ELSE None

\* str::parse::<f64>().is_ok() for a string that contains '.': an optional
\* sign, digits with at most one '.' and at least one digit, and an optional
\* exponent of 'e' or 'E', an optional sign and at least one digit ("inf",
\* "infinity" and "nan" hold no '.')
IsFloatLiteral(s) ==
    LET body == IF s /= <<>> /\ Head(s) \in {"+", "-"} THEN Tail(s) ELSE s
        es == {i \in 1..Len(body) : body[i] \in {"e", "E"}}
        mantissa == IF es = {} THEN body ELSE SubSeq(body, 1, SetMin(es) - 1)
        exponent == IF es = {} THEN <<>> ELSE SubSeq(body, SetMin(es) + 1, Len(body))
        exp_digits == IF exponent /= <<>> /\ Head(exponent) \in {"+", "-"} THEN Tail(exponent) ELSE exponent
    IN  /\ Cardinality({i \in 1..Len(mantissa) : mantissa[i] = "."}) <= 1
        /\ \A i \in 1..Len(mantissa) : mantissa[i] \in Digits \cup {"."}
        /\ \E i \in 1..Len(mantissa) : mantissa[i] \in Digits
        /\ es /= {} => (exp_digits /= <<>> /\ \A i \in 1..Len(exp_digits) : exp_digits[i] \in Digits)

\* the value of a call that panicked: a str slice whose start is past its end
PanicValue == [kind |-> "Panic"]

\* Parser::parse_attr_value.  A Float keeps the text it was parsed from.
ParseAttrValue(s) ==
    IF s = <<"t", "r", "u", "e">> THEN [kind |-> "Bool", value |-> TRUE]
    ELSE IF s = <<"f", "a", "l", "s", "e">> THEN [kind |-> "Bool", value |-> FALSE]
    ELSE IF StartsWith(s, <<"[">>) /\ EndsWith(s, <<"]">>)
    THEN LET items == Fn("ParseListItems", <<Slice(s, 1, Len(s) - 1)>>)
         IN  IF \E i \in 1..Len(items) : items[i] = PanicValue THEN PanicValue
             ELSE [kind |-> "List", items |-> items]
    ELSE IF IsSome(ParseI64(s)) THEN [kind |-> "Int", value |-> Unwrap(ParseI64(s))]
    ELSE IF Contains(s, <<".">>) /\ IsFloatLiteral(s) THEN [kind |-> "Float", literal |-> s]
    ELSE IF \/ (StartsWith(s, <<"\"">>) /\ EndsWith(s, <<"\"">>))
            \/ (StartsWith(s, <<"'">>) /\ EndsWith(s, <<"'">>))
    THEN IF 1 > Len(s) - 1 THEN PanicValue
         ELSE [kind |-> "Str", value |-> Slice(s, 1, Len(s) - 1)]
    ELSE [kind |-> "Str", value |-> s]

\* the for loop of parse_list_items from byte i on, and the item after the loop
RECURSIVE ListItemsLoop(_, _, _, _, _)
ListItemsLoop(s, i, start, in_quotes, items) ==
    IF i >= Len(s)
    THEN LET item == Trim(SliceFrom(s, start))
         IN  IF item /= <<>> THEN Append(items, Fn("ParseAttrValue", <<item>>)) ELSE items
    ELSE IF ByteAt(s, i) \in {"\"", "'"} THEN ListItemsLoop(s, i + 1, start, ~in_quotes, items)
    ELSE IF ByteAt(s, i) = "," /\ ~in_quotes
    THEN LET item == Trim(Slice(s, start, i))
         IN  ListItemsLoop(s, i + 1, i + 1, in_quotes,
                           IF item /= <<>> THEN Append(items, Fn("ParseAttrValue", <<item>>)) ELSE items)
    ELSE ListItemsLoop(s, i + 1, start, in_quotes, items)

\* Parser::parse_list_items
ParseListItems(s) == ListItemsLoop(s, 0, 0, FALSE, <<>>)

\* the loop of parse_metadata; st is [lx, entries, end_span].  An entry is
\* <<key, value>>: the key and the AttrValue of the trimmed text after the
\* colon.  The loop ends at an entry whose value is PanicValue: the call
\* unwinds there.
RECURSIVE MetadataLoop(_, _)
MetadataLoop(input, st) ==
    LET p == Fn("PeekLine", <<input, st.lx>>)
    IN  IF IsNone(p.peeked) THEN [st EXCEPT !.lx = p]
        ELSE LET line == Unwrap(p.peeked)
                 span == line.span
                 line_text == LineText(input, line)
                 cp == Find(line_text, <<":">>)
                 consumed == Fn("NextLine", <<input, p>>).lx
                 is_entry == Find(Trim(line_text), <<":">>) /= NoPos /\ cp /= NoPos
                 value == Fn("ParseAttrValue", <<Trim(SliceFrom(line_text, cp + 1))>>)
             IN  IF Trim(line_text) = <<"-", "-", "-">> THEN [st EXCEPT !.lx = consumed, !.end_span = span]
                 ELSE IF is_entry /\ value = PanicValue
                 THEN [st EXCEPT !.lx = p, !.entries = Append(@, <<Trim(Slice(line_text, 0, cp)), value>>)]
                 ELSE MetadataLoop(input,
                         [st EXCEPT !.lx = consumed,
                                    !.entries = IF is_entry
                                                THEN Append(@, <<Trim(Slice(line_text, 0, cp)), value>>)
                                                ELSE @,
                                    !.end_span = span])

\* parse_metadata panicked in parse_attr_value; metadata is what ParseMetadata gave
MetadataPanicked(metadata) ==
    /\ IsSome(metadata)
    /\ \E i \in 1..Len(Unwrap(metadata).entries) : Unwrap(metadata).entries[i][2] = PanicValue

\* Parser::parse_metadata: [metadata, lx]
ParseMetadata(P, lx, input) ==
    LET p == Fn("PeekLine", <<input, lx>>)
    IN  IF IsNone(p.peeked) THEN [metadata |-> None, lx |-> p]
        ELSE LET line == Unwrap(p.peeked)
                 trimmed == Trimmed(input, line)
             IN  IF ~StartsWith(trimmed, <<"-", "-", "-">>) \/ ~Contains(trimmed, <<"m", "e", "t", "a">>)
                 THEN [metadata |-> None, lx |-> p]
                 ELSE LET start_span == line.span
                          st == Fn("MetadataLoop", <<input, [lx |-> Fn("NextLine", <<input, p>>).lx, entries |-> <<>>,
                                                     end_span |-> start_span]>>)
                      IN  [metadata |-> Some([kind |-> "Metadata", entries |-> st.entries,
                                              span |-> Span(start_span.start, st.end_span.end)]),
                           lx |-> st.lx]

\* parse_internal that keeps the modules of the earlier call when the input declares none
ParseInternalHead_KeepsModules(P, input) ==
    LET lx0 == Fn("SkipBlankLines", <<input, LexerNew>>)
        pr == Fn("ParseProfileDirective", <<P, lx0, input>>)
        mo == Fn("ParseModulesDirective", <<P, pr.lx, input>>)
        P1 == [P EXCEPT !.modules = IF mo.modules = <<>> THEN @ ELSE mo.modules]
        lx1 == Fn("SkipBlankLines", <<input, mo.lx>>)
        me == Fn("ParseMetadata", <<P1, lx1, input>>)
        lx2 == Fn("SkipBlankLines", <<input, me.lx>>)
    IN  [P |-> P1, lx |-> lx2,
         head |-> [profile |-> pr.profile, modules |-> mo.modules, metadata |-> me.metadata]]

\* Parser::parse_internal up to the call of parse_blocks: the lexer there and
\* the locals profile, modules and metadata; self.modules is set to modules
ParseInternalHead(P, input) ==
    LET lx0 == Fn("SkipBlankLines", <<input, LexerNew>>)
        pr == Fn("ParseProfileDirective", <<P, lx0, input>>)
        mo == Fn("ParseModulesDirective", <<P, pr.lx, input>>)
        P1 == [P EXCEPT !.modules = mo.modules]
        lx1 == Fn("SkipBlankLines", <<input, mo.lx>>)
        me == Fn("ParseMetadata", <<P1, lx1, input>>)
        lx2 == Fn("SkipBlankLines", <<input, me.lx>>)
    IN  [P |-> P1, lx |-> lx2,
         head |-> [profile |-> pr.profile, modules |-> mo.modules, metadata |-> me.metadata]]

\* one iteration of the while loop of parse_blocks, entered with the lexer
\* not at EOF: [lx, errors, blocks, called]; called tells that parse_block
\* was called
ParseBlocksIter(P, lx, input, blocks) ==
    LET skipped == Fn("SkipBlankLines", <<input, lx>>)
    IN  IF IsEof(input, skipped)
        THEN [lx |-> skipped, errors |-> P.errors, blocks |-> blocks, called |-> FALSE]
        ELSE LET r == Fn("ParseBlock", <<P, skipped, input>>)
             IN  [lx |-> r.lx, errors |-> r.errors,
                  blocks |-> IF IsSome(r.block) THEN Append(blocks, Unwrap(r.block)) ELSE blocks,
                  called |-> TRUE]

\* the Document that parse_internal returns
DocumentOf(P, input, head, blocks) ==
    [kind |-> "Document",
     profile |-> IF IsSome(head.profile) THEN Unwrap(head.profile) ELSE P.profile,
     modules |-> head.modules,
     metadata |-> head.metadata,
     blocks |-> blocks,
     span |-> Span(0, Len(input))]

\* the value of Parser::parse with the last recorded error in place of the first
ParseReturn_LastError(doc, errors) ==
    IF errors = <<>> THEN [tag |-> "Ok", document |-> doc]
    ELSE [tag |-> "Err", error |-> errors[Len(errors)]]

\* the value Parser::parse returns for the document and the recorded errors
ParseReturn(doc, errors) ==
    IF errors = <<>> THEN [tag |-> "Ok", document |-> doc]
    ELSE [tag |-> "Err", error |-> errors[1]]

\* the value Parser::parse_with_recovery returns
ParseWithRecoveryReturn(doc, errors) ==
    [tag |-> "ParseResult", document |-> doc, errors |-> errors]

\* a parse call that starts with the error list the Parser still holds
ErrorsAtCall_Kept(P) == P.errors

\* the error list with which a parse call starts
ErrorsAtCall(P) == <<>>

\* the error list that parse_with_recovery leaves in the Parser (mem::take)
ErrorsAfterTake(errors) == <<>>


(***************************************************************************)
(* A whole call as a function of the Parser and the input, for comparing   *)
(* calls.  A call whose loop in parse_blocks reaches an iteration that     *)
(* changes nothing repeats that iteration forever: it diverges and has no  *)
(* result.                                                                 *)
(***************************************************************************)
RECURSIVE RunBlocks(_, _, _, _)
RunBlocks(P, lx, s, bs) ==
    IF IsEof(s, lx) THEN [diverges |-> FALSE, errors |-> P.errors, blocks |-> bs]
    ELSE LET r == Fn("ParseBlocksIter", <<P, lx, s, bs>>)
         IN  IF r.lx = lx /\ r.errors = P.errors /\ r.blocks = bs
             THEN [diverges |-> TRUE, errors |-> P.errors, blocks |-> bs]
             ELSE RunBlocks([P EXCEPT !.errors = r.errors], r.lx, s, r.blocks)

\* Parser::parse_internal on a Parser whose error list was just reset:
\* [diverges, panics, document, errors, modules]
RunInternal(P, s) ==
    LET h == Fn("ParseInternalHead", <<[P EXCEPT !.errors = <<>>], s>>)
        r == IF MetadataPanicked(h.head.metadata)
             THEN [diverges |-> FALSE, errors |-> h.P.errors, blocks |-> <<>>]
             ELSE Fn("RunBlocks", <<h.P, h.lx, s, <<>>>>)
    IN  [diverges |-> r.diverges,
         panics |-> MetadataPanicked(h.head.metadata),
         document |-> DocumentOf(h.P, s, h.head, r.blocks),
         errors |-> r.errors,
         modules |-> h.P.modules]

\* what a Parser just built by Parser::new(profile).with_recovery(recover)
\* returns for the call o on input s
FreshReturn(profile, recover, o, s) ==
    LET r == Fn("RunInternal", <<WithRecovery(ParserNew(profile), recover), s>>)
    IN  IF r.panics THEN [tag |-> "Panic"]
        ELSE IF o = "parse" THEN ParseReturn(r.document, r.errors)
        ELSE [tag |-> "ParseResult", document |-> r.document, errors |-> r.errors]

(***************************************************************************)
(* The functions of the crate by name: Fn(f, a) is what function f returns *)
(* for the arguments a.  The functions call one another through Fn.       *)
(***************************************************************************)
Fn(f, a) ==
    CASE f = "ReadLine" -> ReadLine(a[1], a[2])
      [] f = "PeekLine" -> PeekLine(a[1], a[2])
      [] f = "NextLine" -> NextLine(a[1], a[2])
      [] f = "SkipBlankLines" -> SkipBlankLines(a[1], a[2])
      [] f = "TryParseEscape" -> TryParseEscape(a[1], a[2], a[3])
      [] f = "TryParseCodeSpan" -> TryParseCodeSpan(a[1], a[2], a[3])
      [] f = "TryParseLink" -> TryParseLink(a[1], a[2], a[3])
      [] f = "TryParseFootnoteRef" -> TryParseFootnoteRef(a[1], a[2], a[3])
      [] f = "TryParseBracket" -> TryParseBracket(a[1], a[2], a[3])
      [] f = "EmphasisClose" -> EmphasisClose(a[1], a[2], a[3])
      [] f = "TryParseDouble" -> TryParseDouble(a[1], a[2], a[3], a[4], a[5])
      [] f = "TryParseStrong" -> TryParseStrong(a[1], a[2], a[3])
      [] f = "TryParseEmphasis" -> TryParseEmphasis(a[1], a[2], a[3])
      [] f = "TryParseAsterisk" -> TryParseAsterisk(a[1], a[2], a[3])
      [] f = "TryParseTilde" -> TryParseTilde(a[1], a[2], a[3])
      [] f = "TryParseAutolink" -> TryParseAutolink(a[1], a[2], a[3])
      [] f = "Dispatch" -> Dispatch(a[1], a[2], a[3])
      [] f = "ParseLoop" -> ParseLoop(a[1], a[2], a[3])
      [] f = "InlineParserParse" -> InlineParserParse(a[1], a[2])
      [] f = "ParseInlines" -> ParseInlines(a[1], a[2])
      [] f = "ParseHeading" -> ParseHeading(a[1], a[2], a[3])
      [] f = "FenceLoop" -> FenceLoop(a[1], a[2], a[3])
      [] f = "FenceBody" -> FenceBody(a[1], a[2], a[3], a[4])
      [] f = "ParseCodeBlock" -> ParseCodeBlock(a[1], a[2], a[3])
      [] f = "ParseRawFencedBlock" -> ParseRawFencedBlock(a[1], a[2], a[3])
      [] f = "ParseMathBlock" -> ParseMathBlock(a[1], a[2], a[3])
      [] f = "ParseHtmlBlock" -> ParseHtmlBlock(a[1], a[2], a[3])
      [] f = "FinalizeItem" -> FinalizeItem(a[1], a[2], a[3], a[4])
      [] f = "ListLoop" -> ListLoop(a[1], a[2], a[3])
      [] f = "ParseU64" -> ParseU64(a[1])
      [] f = "ListAttrs" -> ListAttrs(a[1], a[2])
      [] f = "ParseListBlock" -> ParseListBlock(a[1], a[2], a[3])
      [] f = "PushPending" -> PushPending(a[1], a[2], a[3], a[4])
      [] f = "UntilLoop" -> UntilLoop(a[1], a[2])
      [] f = "ParseUntilFenceClose" -> ParseUntilFenceClose(a[1], a[2], a[3])
      [] f = "ParseCalloutBlock" -> ParseCalloutBlock(a[1], a[2], a[3])
      [] f = "ParseQuoteBlock" -> ParseQuoteBlock(a[1], a[2], a[3])
      [] f = "ParseFigureBlock" -> ParseFigureBlock(a[1], a[2], a[3])
      [] f = "TableRowLoop" -> TableRowLoop(a[1], a[2], a[3], a[4])
      [] f = "ParseTableRow" -> ParseTableRow(a[1], a[2])
      [] f = "TableLoop" -> TableLoop(a[1], a[2], a[3])
      [] f = "ParseTableBlock" -> ParseTableBlock(a[1], a[2], a[3])
      [] f = "FootnotesLoop" -> FootnotesLoop(a[1], a[2])
      [] f = "ParseFootnotesBlock" -> ParseFootnotesBlock(a[1], a[2], a[3])
      [] f = "ShouldBreak" -> ShouldBreak(a[1], a[2])
      [] f = "ParagraphLoop" -> ParagraphLoop(a[1], a[2])
      [] f = "ParseParagraph" -> ParseParagraph(a[1], a[2], a[3])
      [] f = "ParseFencedBlock" -> ParseFencedBlock(a[1], a[2], a[3])
      [] f = "ParseBlock" -> ParseBlock(a[1], a[2], a[3])
      [] f = "ParseProfileDirective" -> ParseProfileDirective(a[1], a[2], a[3])
      [] f = "ParseModulesDirective" -> ParseModulesDirective(a[1], a[2], a[3])
      [] f = "ParseAttrValue" -> ParseAttrValue(a[1])
      [] f = "ParseListItems" -> ParseListItems(a[1])
      [] f = "MetadataLoop" -> MetadataLoop(a[1], a[2])
      [] f = "ParseMetadata" -> ParseMetadata(a[1], a[2], a[3])
      [] f = "ParseInternalHead" -> ParseInternalHead(a[1], a[2])
      [] f = "ParseBlocksIter" -> ParseBlocksIter(a[1], a[2], a[3], a[4])
      [] f = "RunBlocks" -> RunBlocks(a[1], a[2], a[3], a[4])
      [] f = "RunInternal" -> RunInternal(a[1], a[2])
      [] f = "FreshReturn" -> FreshReturn(a[1], a[2], a[3], a[4])


(***************************************************************************)
(* The inputs of the model: documents of at most MaxLines lines, each line *)
(* drawn from a vocabulary, joined by "\n".  A last line that is empty     *)
(* gives an input that ends with "\n".                                     *)
(***************************************************************************)
RECURSIVE Join(_)
Join(lines) ==
    IF lines = <<>> THEN <<>>
    ELSE IF Len(lines) = 1 THEN lines[1]
    ELSE lines[1] \o <<"\n">> \o Join(Tail(lines))

InputsOver(vocabulary, n) ==
    {Join(ls) : ls \in UNION {[1..k -> vocabulary] : k \in 0..n}}

\* lines of the dispatch, directive and error handling cases
DocLines ==
    {<<>>, <<"a">>, <<":", "a">>, <<":", ":">>, <<":", ":", "x">>, <<":", ":", "q", "u", "o", "t", "e">>, <<"\r">>, <<"#", " ", "a">>}

DocInputs == InputsOver(DocLines, MaxLines)

\* lines of the cases in which one Parser value is used for several calls
CallLines == {<<":", ":", "x">>, <<":", ":">>, <<"@", "m", "o", "d", "u", "l", "e", "s", " ", "h", "t", "m", "l">>, <<":", ":", "h", "t", "m", "l">>}

CallInputs == InputsOver(CallLines, MaxLines)

Profiles == {"Litedoc", "Md"}
Ops == {"parse", "parse_with_recovery"}

(***************************************************************************)
(* The state: one Parser value and the call in progress on it.             *)
(*   parser  the Parser                                                    *)
(*   pc      "idle": no call in progress; "blocks": in the loop of         *)
(*           parse_blocks; "done": the call has returned result            *)
(*   op      the method called                                             *)
(*   input   the input of the call                                         *)
(*   lexer   the Lexer of parse_internal                                   *)
(*   head    the locals profile, modules, metadata of parse_internal       *)
(*   blocks  the local blocks of parse_blocks                              *)
(*   result  the value returned (an Option)                                *)
(*   earlier history: whether an earlier call on this Parser recorded an   *)
(*           error / declared a module                                     *)
(*   text, base_offset, inlines                                            *)
(*           a call of inline::parse_inlines on its own: the text run, its *)
(*           base offset and the value returned (an Option)                *)
(*   returned, last_call                                                   *)
(*           the calls made on a Lexer on its own: the lines that its      *)
(*           next_line calls have returned so far, and the last call made  *)
(*           with the value it gave                                        *)
(***************************************************************************)
VARIABLES parser, pc, op, input, lexer, head, blocks, result, earlier,
          text, base_offset, inlines, returned, last_call

vars == <<parser, pc, op, input, lexer, head, blocks, result, earlier, text, base_offset, inlines,
          returned, last_call>>

inlineVars == <<text, base_offset, inlines>>
lexVars == <<returned, last_call>>
callVars == <<parser, pc, op, input, lexer, head, blocks, result, earlier>>

NoHead == [profile |-> None, modules |-> <<>>, metadata |-> None]

\* Parser::new(profile) for a profile of the set profiles
InitWith(profiles) ==
    /\ parser \in {ParserNew(profile) : profile \in profiles}
    /\ pc = "idle"
    /\ op = "none"
    /\ input = <<>>
    /\ lexer = LexerNew
    /\ head = NoHead
    /\ blocks = <<>>
    /\ result = None
    /\ earlier = [errors |-> FALSE, modules |-> FALSE]
    /\ returned = <<>>
    /\ last_call = [call |-> "new"]

\* Parser::with_recovery(recover) between calls
ConfigureRecovery(recover) ==
    /\ pc = "idle"
    /\ parser.recover_on_error /= recover
    /\ parser' = WithRecovery(parser, recover)
    /\ UNCHANGED <<pc, op, input, lexer, head, blocks, result, earlier, inlineVars, lexVars>>

\* a call of parse or parse_with_recovery on input s, up to the loop of
\* parse_blocks; a panic in parse_metadata ends the call without a value
Call(s, o) ==
    /\ pc = "idle"
    /\ LET h == Fn("ParseInternalHead", <<[parser EXCEPT !.errors = ErrorsAtCall(parser)], s>>)
       IN  /\ parser' = h.P
           /\ lexer' = h.lx
           /\ head' = h.head
           /\ pc' = IF MetadataPanicked(h.head.metadata) THEN "panicked" ELSE "blocks"
    /\ op' = o
    /\ input' = s
    /\ blocks' = <<>>
    /\ UNCHANGED <<result, earlier, inlineVars, lexVars>>

\* one iteration of the loop of parse_blocks
BlocksIter ==
    /\ pc = "blocks"
    /\ ~IsEof(input, lexer)
    /\ LET r == Fn("ParseBlocksIter", <<parser, lexer, input, blocks>>)
       IN  /\ lexer' = r.lx
           /\ parser' = [parser EXCEPT !.errors = r.errors]
           /\ blocks' = r.blocks
    /\ UNCHANGED <<pc, op, input, head, result, earlier, inlineVars, lexVars>>

\* the loop of parse_blocks ends and the call returns
Return ==
    /\ pc = "blocks"
    /\ IsEof(input, lexer)
    /\ LET doc == DocumentOf(parser, input, head, blocks)
       IN  IF op = "parse"
           THEN /\ result' = Some(ParseReturn(doc, parser.errors))
                /\ parser' = parser
           ELSE /\ result' = Some(ParseWithRecoveryReturn(doc, parser.errors))
                /\ parser' = [parser EXCEPT !.errors = ErrorsAfterTake(@)]
    /\ pc' = "done"
    /\ UNCHANGED <<op, input, lexer, head, blocks, earlier, inlineVars, lexVars>>

\* the caller is done with the returned value; the Parser can be called again
Release ==
    /\ pc = "done"
    /\ pc' = "idle"
    /\ op' = "none"
    /\ input' = <<>>
    /\ lexer' = LexerNew
    /\ head' = NoHead
    /\ blocks' = <<>>
    /\ result' = None
    /\ earlier' = [errors |-> earlier.errors \/ Unwrap(result).tag = "Err"
                                \/ (Unwrap(result).tag = "ParseResult" /\ Unwrap(result).errors /= <<>>),
                   modules |-> earlier.modules \/ parser.modules /= <<>>]
    /\ UNCHANGED <<parser, inlineVars, lexVars>>

\* no call of parse_inlines on its own
NoRun ==
    /\ text = <<>>
    /\ base_offset = 0
    /\ inlines = None

Init == InitWith(Profiles) /\ NoRun

\* one call on a new Parser, for the documents over DocLines
Next ==
    \/ \E recover \in BOOLEAN : ConfigureRecovery(recover)
    \/ (pc = "idle" /\ \E s \in DocInputs, o \in Ops : Call(s, o))
    \/ BlocksIter
    \/ Return

Spec == Init /\ [][Next]_vars

\* any number of calls on one Parser, for the documents over CallLines
NextCalls ==
    \/ \E recover \in BOOLEAN : ConfigureRecovery(recover)
    \/ (pc = "idle" /\ \E s \in CallInputs, o \in Ops : Call(s, o))
    \/ BlocksIter
    \/ Return
    \/ Release

SpecCalls == Init /\ [][NextCalls]_vars


\* lines of the nested blocks: lists, tables, footnotes, quotes and their bodies
NestLines ==
    {<<>>, <<"a">>, <<"*", "*", "a", "*", "*">>, <<":", ":">>, <<":", ":", "q", "u", "o", "t", "e">>, <<":", ":", "l", "i", "s", "t">>, <<"-", " ", "a">>, <<":", ":", "t", "a", "b", "l", "e">>,
     <<"|", " ", "*", "a", "*", " ", "|">>, <<":", ":", "f", "o", "o", "t", "n", "o", "t", "e", "s">>, <<"[", "^", "1", "]", ":", " ", "a">>}

NestInputs == InputsOver(NestLines, MaxLines)

\* a new Parser of the Litedoc profile
InitLitedoc == InitWith({"Litedoc"}) /\ NoRun

\* one call of parse_with_recovery on a new Parser, for the documents over NestLines
NextNest ==
    \/ (pc = "idle" /\ \E s \in NestInputs : Call(s, "parse_with_recovery"))
    \/ BlocksIter
    \/ Return

SpecNest == InitLitedoc /\ [][NextNest]_vars

\* n bytes b
Repeat(b, n) == [i \in 1..n |-> b]

\* one-line documents: at most MaxHashes bytes '#' and what follows them
HeadingInputs ==
    {Repeat("#", n) \o rest : n \in 0..MaxHashes, rest \in {<<>>, <<" ", "a">>, <<"a">>, <<"\t", "a">>}}

\* one call of parse on a new Parser, for the documents of HeadingInputs
NextHeading ==
    \/ (pc = "idle" /\ \E s \in HeadingInputs : Call(s, "parse"))
    \/ BlocksIter
    \/ Return

SpecHeading == InitLitedoc /\ [][NextHeading]_vars

\* the pieces of which the text runs of the inline parser are made
Pieces ==
    {<<"\\">>, <<"*">>, <<"*", "*">>, <<"~", "~">>, <<Backquote>>, <<"[", "[">>, <<"[", "^">>, <<"]", "]">>, <<"<">>, <<":", "/", "/", ">">>, <<"a">>, <<" ">>}

RECURSIVE Concat(_)
Concat(ps) == IF ps = <<>> THEN <<>> ELSE Head(ps) \o Concat(Tail(ps))

\* the text runs of at most n pieces
Runs(n) == {Concat(ps) : ps \in UNION {[1..k -> Pieces] : k \in 0..n}}

\* the base offsets of the text runs
BaseOffsets == {0, 3}

InitInline ==
    /\ InitWith({"Litedoc"})
    /\ text \in Runs(MaxPieces)
    /\ base_offset \in BaseOffsets
    /\ inlines = None

\* a call of inline::parse_inlines(text, base_offset, _)
ParseInlinesCall ==
    /\ IsNone(inlines)
    /\ inlines' = Some(Fn("ParseInlines", <<text, base_offset>>))
    /\ UNCHANGED <<text, base_offset, callVars, lexVars>>

NextInline == ParseInlinesCall

SpecInline == InitInline /\ [][NextInline]_vars


(***************************************************************************)
(* The tree of a Document: the children of a node, the spans of the nodes  *)
(* of a tree and the (parent span, child span) pairs of a tree.            *)
(***************************************************************************)
Children(node) ==
    CASE node.kind = "Document" -> node.metadata \o node.blocks
      [] node.kind \in {"Paragraph", "Heading", "TableCell", "Emphasis", "Strong", "Strikethrough"} ->
            node.content
      [] node.kind = "List" -> node.items
      [] node.kind \in {"ListItem", "Callout", "Quote", "FootnoteDef"} -> node.blocks
      [] node.kind = "Table" -> node.rows
      [] node.kind = "TableRow" -> node.cells
      [] node.kind = "Footnotes" -> node.defs
      [] node.kind = "Link" -> node.label
      [] OTHER -> <<>>

RECURSIVE TreeSpans(_)
TreeSpans(node) ==
    LET cs == Children(node)
    IN  {node.span} \cup UNION {TreeSpans(cs[i]) : i \in 1..Len(cs)}

RECURSIVE TreePairs(_)
TreePairs(node) ==
    LET cs == Children(node)
    IN  {<<node.span, cs[i].span>> : i \in 1..Len(cs)} \cup UNION {TreePairs(cs[i]) : i \in 1..Len(cs)}

\* the <<kind, span>> of the nodes of a tree
RECURSIVE TreeNodes(_)
TreeNodes(node) ==
    LET cs == Children(node)
    IN  {<<node.kind, node.span>>} \cup UNION {TreeNodes(cs[i]) : i \in 1..Len(cs)}

\* the call has returned a Document (parse returns none with an Err)
Returned == pc = "done" /\ Unwrap(result).tag /= "Err"
ReturnedDocument == Unwrap(result).document

\* the errors that the call in progress has recorded so far, and those of a call that returned
RecordedErrors ==
    IF pc = "done" /\ Unwrap(result).tag = "ParseResult" THEN Unwrap(result).errors ELSE parser.errors

\* the offset of the start of the line that next_line returns next
NextStart(lx) == IF IsSome(lx.peeked) THEN Unwrap(lx.peeked).span.start ELSE lx.offset

(***************************************************************************)
(* C1: every call that parse_blocks makes to parse_block on a non-blank    *)
(* next line consumes at least one line of the lexer, so that the loop of  *)
(* parse_blocks ends and parse_with_recovery returns.                      *)
(***************************************************************************)
C1_ParseBlockConsumes ==
    (pc = "blocks" /\ ~IsEof(input, lexer)) =>
        LET skipped == Fn("SkipBlankLines", <<input, lexer>>)
        IN  ~IsEof(input, skipped) =>
                NextStart(Fn("ParseBlock", <<parser, skipped, input>>).lx) > NextStart(skipped)

(***************************************************************************)
(* C2: every node N of the returned tree has                               *)
(* 0 <= N.span.start <= N.span.end <= input.len().                         *)
(***************************************************************************)
C2_SpansWithinInput ==
    Returned =>
        \A sp \in TreeSpans(ReturnedDocument) :
            0 <= sp.start /\ sp.start <= sp.end /\ sp.end <= Len(input)

(***************************************************************************)
(* C3: for every parent P and child C of the returned tree,                *)
(* P.span.start <= C.span.start and C.span.end <= P.span.end.              *)
(***************************************************************************)
C3_ChildWithinParent ==
    Returned =>
        \A pr \in TreePairs(ReturnedDocument) :
            pr[1].start <= pr[2].start /\ pr[2].end <= pr[1].end

\* a Quote with a Paragraph with a Strong, a List with an item and a Table with a cell were returned
C3_Witness ==
    /\ Returned
    /\ LET kinds == {n[1] : n \in TreeNodes(ReturnedDocument)}
       IN  {"Quote", "Strong"} \subseteq kinds \/ {"List", "ListItem", "TableCell"} \subseteq kinds
    /\ \E i \in 1..Len(ReturnedDocument.blocks) :
          ReturnedDocument.blocks[i].kind = "Quote" /\ ReturnedDocument.blocks[i].blocks /= <<>>

(***************************************************************************)
(* C4: consecutive top-level blocks B1, B2 of the returned Document have   *)
(* B1.span.end <= B2.span.start, also after an error ended a list or a     *)
(* table.                                                                  *)
(***************************************************************************)
C4_SiblingOrder ==
    Returned =>
        LET bs == ReturnedDocument.blocks
        IN  \A i \in 1..(Len(bs) - 1) : bs[i].span.end <= bs[i + 1].span.start

\* a List that an error ended, with an item, is followed by another block
C4_Witness ==
    /\ Returned
    /\ RecordedErrors /= <<>>
    /\ Len(ReturnedDocument.blocks) >= 2
    /\ ReturnedDocument.blocks[1].kind = "List"
    /\ ReturnedDocument.blocks[1].items /= <<>>


(***************************************************************************)
(* C5: parse(input) returns Err(e) exactly when parse_with_recovery(input) *)
(* on an identically configured parser returns a non-empty error list, and *)
(* then e is the first error of that list; otherwise parse returns Ok(doc) *)
(* with doc the document of parse_with_recovery.                           *)
(***************************************************************************)
C5_ParseAgreesWithRecovery ==
    (pc = "done" /\ op = "parse") =>
        LET r == Fn("FreshReturn", <<parser.profile, parser.recover_on_error, "parse_with_recovery", input>>)
            res == Unwrap(result)
        IN  /\ res.tag = "Err" <=> r.errors /= <<>>
            /\ res.tag = "Err" => res.error = r.errors[1]
            /\ res.tag = "Ok" => res.document = r.document

\* parse returned Err for an input on which parse_with_recovery returns two different errors
C5_Witness ==
    /\ pc = "done"
    /\ op = "parse"
    /\ Unwrap(result).tag = "Err"
    /\ LET r == Fn("FreshReturn", <<parser.profile, parser.recover_on_error, "parse_with_recovery", input>>)
       IN  Len(r.errors) >= 2 /\ r.errors[1] /= r.errors[Len(r.errors)]

(***************************************************************************)
(* C6: with recovery disabled, parse returns Err for every input on which  *)
(* a recovery-enabled parser records at least one error, in particular for *)
(* an input with a fenced directive of an unknown name.                    *)
(***************************************************************************)
C6_NoRecoveryReturnsErr ==
    (pc = "done" /\ op = "parse" /\ ~parser.recover_on_error) =>
        (Fn("FreshReturn", <<parser.profile, TRUE, "parse_with_recovery", input>>).errors /= <<>>
            => Unwrap(result).tag = "Err")

(***************************************************************************)
(* C7: with recovery enabled, a fenced directive ::name of an unknown name *)
(* that has a closer line yields exactly one RawBlock that spans the       *)
(* opener through the next line whose trimmed text is "::", records        *)
(* exactly one UnknownDirective error whose message contains the name, and *)
(* leaves the lexer at the line after the closer, where the next blocks    *)
(* are parsed.                                                             *)
(***************************************************************************)
KnownDirectives ==
    {<<"l", "i", "s", "t">>, <<"c", "a", "l", "l", "o", "u", "t">>, <<"q", "u", "o", "t", "e">>, <<"f", "i", "g", "u", "r", "e">>, <<"t", "a", "b", "l", "e">>, <<"f", "o", "o", "t", "n", "o", "t", "e", "s">>, <<"m", "a", "t", "h">>, <<"h", "t", "m", "l">>}

\* the lines of the input from offset from on: their <<start, text end, next start>>
RECURSIVE LinesFrom(_, _)
LinesFrom(s, from) ==
    IF from >= Len(s) THEN <<>>
    ELSE LET nls == {i \in from..(Len(s) - 1) : ByteAt(s, i) = "\n"}
             nl == IF nls = {} THEN Len(s) ELSE SetMin(nls)
             stop == IF nl > from /\ ByteAt(s, nl - 1) = "\r" THEN nl - 1 ELSE nl
         IN  <<<<from, stop, IF nl < Len(s) THEN nl + 1 ELSE nl>>>> \o
             LinesFrom(s, IF nl < Len(s) THEN nl + 1 ELSE nl)

\* the opener of an unknown directive is the next non-blank line and a closer follows it:
\* [holds, name, opener, closer] with the lines as <<start, text end, next start>>
UnknownDirectiveAhead ==
    LET skipped == Fn("SkipBlankLines", <<input, lexer>>)
        here == LinesFrom(input, NextStart(skipped))
        opener == here[1]
        trimmed == Trim(Slice(input, opener[1], opener[2]))
        name == FirstWord(SliceFrom(trimmed, 2))
        closers == {i \in 2..Len(here) : Trim(Slice(input, here[i][1], here[i][2])) = <<":", ":">>}
    IN  IF /\ ~IsEof(input, skipped)
           /\ here /= <<>>
           /\ StartsWith(trimmed, <<":", ":">>)
           /\ name /= <<>>
           /\ name \notin KnownDirectives
           /\ closers /= {}
        THEN [holds |-> TRUE, name |-> name, opener |-> opener, closer |-> here[SetMin(closers)]]
        ELSE [holds |-> FALSE]

C7_UnknownDirectiveStep ==
    (pc = "blocks" /\ parser.recover_on_error /\ ~IsEof(input, lexer) /\ UnknownDirectiveAhead.holds) =>
        LET u == UnknownDirectiveAhead
        IN  /\ Len(blocks') = Len(blocks) + 1
            /\ SubSeq(blocks', 1, Len(blocks)) = blocks
            /\ blocks'[Len(blocks')].kind = "Raw"
            /\ blocks'[Len(blocks')].span = Span(u.opener[1], u.closer[2])
            /\ Len(parser'.errors) = Len(parser.errors) + 1
            /\ SubSeq(parser'.errors, 1, Len(parser.errors)) = parser.errors
            /\ parser'.errors[Len(parser'.errors)].kind = "UnknownDirective"
            /\ Contains(parser'.errors[Len(parser'.errors)].message, u.name)
            /\ NextStart(lexer') = u.closer[3]
            /\ IsNone(lexer'.peeked)

C7_UnknownDirective == [][C7_UnknownDirectiveStep]_vars

\* an unknown directive with a closer gave a RawBlock and one error, and the
\* line after the closer gave a Paragraph
C7_Witness ==
    /\ pc = "done"
    /\ parser.recover_on_error
    /\ Len(blocks) = 2
    /\ blocks[1].kind = "Raw"
    /\ blocks[1].span.end < blocks[2].span.start
    /\ blocks[2].kind = "Paragraph"
    /\ Len(RecordedErrors) = 1
    /\ RecordedErrors[1].kind = "UnknownDirective"

(***************************************************************************)
(* C8: in any sequence of parse and parse_with_recovery calls on one       *)
(* Parser, the value returned for an input is the value that a new Parser  *)
(* with the same profile and recovery flag returns for it: neither the     *)
(* errors nor the modules of earlier calls influence or appear in it.      *)
(***************************************************************************)
C8_ReturnsAsFreshParser ==
    pc = "done" =>
        Unwrap(result) = Fn("FreshReturn", <<parser.profile, parser.recover_on_error, op, input>>)

\* a call returned no error and no module on a Parser whose earlier calls
\* recorded errors and declared modules
C8_Witness ==
    /\ pc = "done"
    /\ earlier.errors
    /\ earlier.modules
    /\ Unwrap(result).tag \in {"Ok", "ParseResult"}
    /\ Unwrap(result).document.modules = <<>>
    /\ Unwrap(result).document.blocks /= <<>>
    /\ RecordedErrors = <<>>


(***************************************************************************)
(* C9: a backslash followed by a byte x inside a text run makes both bytes *)
(* plain text: x never starts and never closes an inline construct.  The   *)
(* backslash is one that escapes (an odd number of backslashes ends at     *)
(* it) and no byte before it opens a code span, a link, a footnote         *)
(* reference or an autolink, so that it is in a text run.                  *)
(***************************************************************************)
\* the number of consecutive backslashes of t that end at offset i
BackslashesEndingAt(t, i) ==
    LET others == {k \in 0..i : ByteAt(t, k) /= "\\"}
    IN  IF others = {} THEN i + 1 ELSE i - SetMax(others)

\* the offsets of the bytes x of t that a backslash of a text run escapes
EscapedOffsets(t) ==
    {j \in 1..(Len(t) - 1) :
        /\ ByteAt(t, j - 1) = "\\"
        /\ BackslashesEndingAt(t, j - 1) % 2 = 1
        /\ \A k \in 0..(j - 2) : ByteAt(t, k) \notin {Backquote, "[", "<"}}

\* the length of the closing delimiter of a node of the given kind
CloserLen(kind) == IF kind \in {"Strong", "Strikethrough", "Link"} THEN 2 ELSE 1

\* the <<kind, span>> of the nodes of a list of inlines, at every depth
InlineNodes(nodes) == UNION {TreeNodes(nodes[i]) : i \in 1..Len(nodes)}

C9_EscapedByteIsPlainText ==
    IsSome(inlines) =>
        \A j \in EscapedOffsets(text) :
            LET nodes == InlineNodes(Unwrap(inlines))
                x == base_offset + j
            IN  /\ \A n \in nodes :
                      n[1] /= "Text" =>
                          /\ n[2].start /= x
                          /\ ~(n[2].end - CloserLen(n[1]) <= x /\ x < n[2].end)
                /\ \E n \in nodes : n[1] = "Text" /\ n[2].start <= x - 1 /\ x < n[2].end

(***************************************************************************)
(* C10: every Heading of the returned tree has 1 <= level <= 6: a line     *)
(* whose first byte is '#' becomes a Heading exactly when its count n of   *)
(* leading '#' bytes is in 1..6 and the byte after them is a space or the  *)
(* line ends, and its level is then n; otherwise it becomes a Paragraph.   *)
(***************************************************************************)
\* the number of leading '#' bytes of the one-line input s
LeadingHashes(s) == Cardinality({k \in 1..Len(s) : \A i \in 1..k : s[i] = "#"})

C10_HeadingLevels ==
    (pc = "done" /\ input /= <<>> /\ input[1] = "#" /\ ~Contains(input, <<"\n">>)) =>
        LET n == LeadingHashes(input)
            heading == n \in 1..6 /\ (Len(input) = n \/ input[n + 1] = " ")
        IN  /\ Len(blocks) = 1
            /\ blocks[1].kind = (IF heading THEN "Heading" ELSE "Paragraph")
            /\ blocks[1].kind = "Heading" => blocks[1].level = n
            /\ \A nd \in TreeNodes(blocks[1]) : nd[1] = "Heading" => nd[2] = Span(0, Len(input))

\* a line of 257 '#' bytes and " a", whose count taken as u8 is 1, became a Paragraph
C10_Witness ==
    /\ pc = "done"
    /\ LeadingHashes(input) = 257
    /\ Len(input) = 259
    /\ input[258] = " "
    /\ Len(blocks) = 1
    /\ blocks[1].kind = "Paragraph"



(***************************************************************************)
(* Documents of fenced blocks: code fences, raw, math, html, quote and     *)
(* callout directives, closed and unclosed.                                *)
(***************************************************************************)
FenceLines ==
    {<<>>, <<"h", "i">>, <<Backquote, Backquote, Backquote>>, <<Backquote, Backquote, Backquote, "r">>, <<":", ":">>, <<":", ":", "x">>, <<":", ":", "m", "a", "t", "h">>, <<":", ":", "h", "t", "m", "l">>, <<":", ":", "q", "u", "o", "t", "e">>, <<":", ":", "c", "a", "l", "l", "o", "u", "t">>, <<"@", "m", "o", "d", "u", "l", "e", "s", " ", "h", "t", "m", "l">>}

FenceInputs == InputsOver(FenceLines, MaxLines)

\* one call on a new Parser, for the documents over FenceLines
NextFence ==
    \/ (pc = "idle" /\ \E s \in FenceInputs, o \in Ops : Call(s, o))
    \/ BlocksIter
    \/ Return

SpecFence == InitLitedoc /\ [][NextFence]_vars

\* the top-level blocks of the kinds ks that the call returned, each with the
\* lines of the input from its opener on, as <<start, text end, next start>>
ReturnedFences(ks) ==
    {[block |-> blocks[i], here |-> LinesFrom(input, blocks[i].span.start)] :
        i \in {j \in 1..Len(blocks) : blocks[j].kind \in ks}}

\* the indices in here of the lines after the opener whose trimmed text is closer
ClosersOf(here, closer) ==
    {i \in 2..Len(here) : Trim(Slice(input, here[i][1], here[i][2])) = closer}

\* the closer of a fenced block of a kind
CloserOfKind(kind) == IF kind = "CodeBlock" THEN <<Backquote, Backquote, Backquote>> ELSE <<":", ":">>

(***************************************************************************)
(* C11: the content of a closed fenced code block, and of a closed         *)
(* RawBlock, is the input from the byte after the newline of the opener    *)
(* line up to the start of the closing fence line, so that it includes the *)
(* line terminator of the last content line.                               *)
(***************************************************************************)
C11_ContentUpToCloserLine ==
    pc = "done" =>
        \A f \in ReturnedFences({"CodeBlock", "Raw"}) :
            LET closers == ClosersOf(f.here, CloserOfKind(f.block.kind))
            IN  closers /= {} =>
                    f.block.content = Slice(input, f.here[1][3], f.here[SetMin(closers)][1])



\* the errors a new recovering Litedoc Parser records for the input up to offset upto
ErrorsBefore(upto) ==
    Fn("FreshReturn", <<"Litedoc", TRUE, "parse_with_recovery", Slice(input, 0, upto)>>).errors

\* the top-level blocks of the kinds ks that the call returned and that no closer line ends
UnclosedFences(ks) ==
    {f \in ReturnedFences(ks) : ClosersOf(f.here, CloserOfKind(f.block.kind)) = {}}

(***************************************************************************)
(* C12: a fenced code block that reaches EOF without a closing fence       *)
(* yields exactly one CodeBlock, the last block of the document: its       *)
(* content runs from the line after the opener to the end of the last line *)
(* of the input, its span ends at that line, it records no error, and      *)
(* parse returns Ok when nothing before the block recorded an error.       *)
(***************************************************************************)
C12_UnclosedCodeBlock ==
    pc = "done" =>
        \A f \in UnclosedFences({"CodeBlock"}) :
            LET last == f.here[Len(f.here)]
            IN  /\ f.block = blocks[Len(blocks)]
                /\ f.block.content =
                       (IF Len(f.here) > 1 THEN Slice(input, f.here[1][3], last[2]) ELSE <<>>)
                /\ f.block.span = Span(f.here[1][1], last[2])
                /\ RecordedErrors = ErrorsBefore(f.block.span.start)
                /\ (op = "parse" /\ ErrorsBefore(f.block.span.start) = <<>>) => Unwrap(result).tag = "Ok"

\* parse returned Ok for a document that ends in an unclosed code block with content
C12_Witness ==
    /\ pc = "done"
    /\ op = "parse"
    /\ Unwrap(result).tag = "Ok"
    /\ \E f \in UnclosedFences({"CodeBlock"}) : f.block.content /= <<>> /\ f.block.span.start > 0



(***************************************************************************)
(* C13: a math block, and an html block when the Html module is declared,  *)
(* that reaches EOF without a closer line records one UnclosedDelimiter    *)
(* error and still yields the block, with everything read up to the end of *)
(* the input as its content.                                               *)
(***************************************************************************)
C13_UnclosedMathHtmlRecordsError ==
    pc = "done" =>
        \A f \in UnclosedFences({"Math", "Html"}) :
            LET before == ErrorsBefore(f.block.span.start)
            IN  /\ f.block.content =
                       (IF Len(f.here) > 1 THEN Slice(input, f.here[1][3], f.here[Len(f.here)][2]) ELSE <<>>)
                /\ Len(RecordedErrors) = Len(before) + 1
                /\ RecordedErrors[Len(RecordedErrors)].kind = "UnclosedDelimiter"



(***************************************************************************)
(* C14: a callout or quote with at least one body line whose body reaches  *)
(* EOF without a closer line yields one block, the last of the document,   *)
(* and records no error; the block's span ends at the last line of the     *)
(* input, and when that line is not blank the block's content has a        *)
(* Paragraph that ends at it.                                              *)
(***************************************************************************)
C14_UnclosedContainerKeepsBody ==
    pc = "done" =>
        \A f \in {g \in UnclosedFences({"Callout", "Quote"}) : Len(g.here) > 1} :
            LET last == f.here[Len(f.here)]
            IN  /\ f.block = blocks[Len(blocks)]
                /\ RecordedErrors = ErrorsBefore(f.block.span.start)
                /\ f.block.span.end = last[2]
                /\ Trim(Slice(input, last[1], last[2])) /= <<>> =>
                       \E i \in 1..Len(f.block.blocks) :
                           /\ f.block.blocks[i].kind = "Paragraph"
                           /\ f.block.blocks[i].span.end = last[2]



(***************************************************************************)
(* What the properties read in an input: its first non-blank line, its     *)
(* profile line, its modules line.  InputFact(f, a) is the reading f of    *)
(* the arguments a.                                                        *)
(***************************************************************************)
RECURSIVE InputFact(_, _)

\* the first line of s that is not blank, as <<start, text end, next start>>, if any
FirstNonBlank(s) ==
    LET ls == LinesFrom(s, 0)
        nb == {i \in 1..Len(ls) : ~(\A k \in ls[i][1]..(ls[i][2] - 1) : ByteAt(s, k) \in {" ", "\t"})}
    IN  IF nb = {} THEN None ELSE Some(ls[SetMin(nb)])

\* the input opens with a modules line that names html
DeclaresHtml(s) ==
    LET first == InputFact("FirstNonBlank", <<s>>)
        t == Trim(Slice(s, Unwrap(first)[1], Unwrap(first)[2]))
    IN  IsSome(first) /\ StartsWith(t, <<"@", "m", "o", "d", "u", "l", "e", "s">>) /\ Contains(t, <<"h", "t", "m", "l">>)

\* the top-level blocks built so far whose opener line is the html directive
HtmlDirectiveBlocks ==
    {b \in {blocks[i] : i \in 1..Len(blocks)} :
        LET here == LinesFrom(input, b.span.start)
        IN  here /= <<>> /\ Trim(Slice(input, here[1][1], here[1][2])) = <<":", ":", "h", "t", "m", "l">>}

(***************************************************************************)
(* C15: in any sequence of calls on one Parser, the block of an html       *)
(* directive is an HtmlBlock exactly when the modules line of the input    *)
(* being parsed names html; otherwise it is a RawBlock and no error is     *)
(* recorded at it, whatever the inputs of the earlier calls declared.      *)
(***************************************************************************)
C15_HtmlFollowsCurrentInput ==
    (pc \in {"blocks", "done"} /\ HtmlDirectiveBlocks /= {}) =>
        LET declares == InputFact("DeclaresHtml", <<input>>)
        IN  \A b \in HtmlDirectiveBlocks :
                IF declares THEN b.kind = "Html"
                ELSE /\ b.kind = "Raw"
                     /\ \A i \in 1..Len(RecordedErrors) :
                            /\ IsSome(RecordedErrors[i].span)
                            /\ Unwrap(RecordedErrors[i].span).start /= b.span.start

\* an html directive gave a RawBlock on a Parser whose earlier input declared modules
C15_Witness ==
    /\ pc = "done"
    /\ earlier.modules
    /\ ~InputFact("DeclaresHtml", <<input>>)
    /\ \E b \in HtmlDirectiveBlocks : b.kind = "Raw" /\ b.content /= <<>>



(***************************************************************************)
(* Documents of whitespace only: spaces, tabs, carriage returns and line   *)
(* terminators.                                                            *)
(***************************************************************************)
BlankLines == {<<>>, <<" ">>, <<"\t">>, <<" ", "\t">>, <<"\r">>, <<"\r", " ">>}

BlankInputs == InputsOver(BlankLines, MaxLines)

\* one call on a new Parser, for the documents over BlankLines
NextBlank ==
    \/ (pc = "idle" /\ \E s \in BlankInputs, o \in Ops : Call(s, o))
    \/ BlocksIter
    \/ Return

SpecBlank == InitLitedoc /\ [][NextBlank]_vars

(***************************************************************************)
(* C16: an input that consists only of whitespace, the empty input         *)
(* included, yields a Document with zero blocks and no metadata, and no    *)
(* error is recorded.                                                      *)
(***************************************************************************)
C16_WhitespaceOnlyIsEmptyDocument ==
    (pc = "done" /\ \A i \in 1..Len(input) : input[i] \in WhiteSpace) =>
        /\ Unwrap(result).tag \in {"Ok", "ParseResult"}
        /\ ReturnedDocument.blocks = <<>>
        /\ ReturnedDocument.metadata = <<>>
        /\ RecordedErrors = <<>>



\* s with every line feed replaced by carriage return, line feed
RECURSIVE Crlf(_)
Crlf(s) ==
    IF s = <<>> THEN <<>>
    ELSE (IF Head(s) = "\n" THEN <<"\r", "\n">> ELSE <<Head(s)>>) \o Crlf(Tail(s))

\* the offset in Crlf(s) of the byte at offset o of s
CrlfOffset(s, o) == o + Cardinality({i \in 0..(o - 1) : i < Len(s) /\ ByteAt(s, i) = "\n"})

\* t without its carriage returns
StripCr(t) == SelectSeq(t, LAMBDA c : c /= "\r")

\* the string payloads of a node, carriage returns left out
PayloadOf(node) ==
    CASE node.kind \in {"Text", "Raw", "Math", "Html"} -> <<StripCr(node.content)>>
      [] node.kind = "CodeBlock" -> <<StripCr(node.lang), StripCr(node.content)>>
      [] OTHER -> <<>>

\* kind, span, payloads and children of the nodes of a tree; with shift, the
\* spans are moved to where they are in Crlf(s)
RECURSIVE ShapeOf(_, _, _)
ShapeOf(node, s, shift) ==
    LET cs == Children(node)
    IN  <<node.kind,
          IF shift THEN Span(CrlfOffset(s, node.span.start), CrlfOffset(s, node.span.end))
          ELSE node.span,
          PayloadOf(node),
          [i \in 1..Len(cs) |-> ShapeOf(cs[i], s, shift)]>>

(***************************************************************************)
(* C17: parsing an input with every LF replaced by CR LF gives the tree of *)
(* parsing the input itself: the same node kinds and nesting, the same     *)
(* string payloads (text, code block language and content, raw, math and   *)
(* html content; a CR inside a payload is not counted as a difference),    *)
(* and every span moved by the number of CRs that precede its offsets.     *)
(***************************************************************************)
C17_CrlfEquivalence ==
    (Returned /\ \A i \in 1..Len(input) : input[i] /= "\r") =>
        LET crlf == Fn("FreshReturn", <<parser.profile, parser.recover_on_error, "parse_with_recovery", Crlf(input)>>)
        IN  ShapeOf(crlf.document, Crlf(input), FALSE) = ShapeOf(ReturnedDocument, input, TRUE)



(***************************************************************************)
(* Documents that open with profile lines, known and unknown.              *)
(***************************************************************************)
ProfileLines ==
    {<<>>, <<"a">>, <<"@", "m", "o", "d", "u", "l", "e", "s", " ", "h", "t", "m", "l">>,
     <<"@", "p", "r", "o", "f", "i", "l", "e", " ", "m", "d">>, <<"@", "p", "r", "o", "f", "i", "l", "e", " ", "m", "d", "-", "s", "t", "r", "i", "c", "t">>, <<"@", "p", "r", "o", "f", "i", "l", "e", " ", "l", "i", "t", "e", "d", "o", "c">>, <<"@", "p", "r", "o", "f", "i", "l", "e", " ", "x">>,
     <<" ", " ", "@", "p", "r", "o", "f", "i", "l", "e", " ", " ", "m", "d", " ">>}

ProfileInputs == InputsOver(ProfileLines, MaxLines)

\* one call on a new Parser of either profile, for the documents over ProfileLines
NextProfile ==
    \/ (pc = "idle" /\ \E s \in ProfileInputs, o \in Ops : Call(s, o))
    \/ BlocksIter
    \/ Return

SpecProfile == Init /\ [][NextProfile]_vars

\* the trimmed text of the first non-blank line of s (empty when there is none)
FirstNonBlankText(s) ==
    LET first == InputFact("FirstNonBlank", <<s>>)
    IN  IF IsNone(first) THEN <<>> ELSE Trim(Slice(s, Unwrap(first)[1], Unwrap(first)[2]))

\* the profile that the value of a profile line names (an Option)
ProfileNamed(value) ==
    CASE value = <<"l", "i", "t", "e", "d", "o", "c">> -> Some("Litedoc")
      [] value = <<"m", "d">> -> Some("Md")
      [] value = <<"m", "d", "-", "s", "t", "r", "i", "c", "t">> -> Some("MdStrict")
      [] OTHER -> None

\* the input opens with a profile line; its value
OpensWithProfileLine(s) == StartsWith(InputFact("FirstNonBlankText", <<s>>), <<"@", "p", "r", "o", "f", "i", "l", "e">>)
ProfileLineValue(s) == Trim(SliceFrom(InputFact("FirstNonBlankText", <<s>>), 8))

(***************************************************************************)
(* C18: the profile of the Document is the one named by a profile line     *)
(* with value litedoc, md or md-strict when that line is the first         *)
(* non-blank line of the input, and the configured profile of the Parser   *)
(* otherwise; a first profile line with an unknown value is not consumed:  *)
(* the first block of the Document is a Paragraph that starts at it.       *)
(***************************************************************************)
C18_DocumentProfile ==
    Returned =>
        LET opens == InputFact("OpensWithProfileLine", <<input>>)
            named == IF opens THEN ProfileNamed(InputFact("ProfileLineValue", <<input>>)) ELSE None
        IN  /\ ReturnedDocument.profile = (IF IsSome(named) THEN Unwrap(named) ELSE parser.profile)
            /\ (opens /\ IsNone(named)) =>
                   /\ ReturnedDocument.blocks /= <<>>
                   /\ ReturnedDocument.blocks[1].kind = "Paragraph"
                   /\ ReturnedDocument.blocks[1].span.start = Unwrap(InputFact("FirstNonBlank", <<input>>))[1]

\* a Parser configured with Md returned a Document with blocks whose profile
\* line names another profile
C18_Witness ==
    /\ Returned
    /\ parser.profile = "Md"
    /\ InputFact("OpensWithProfileLine", <<input>>)
    /\ ReturnedDocument.profile \in {"Litedoc", "MdStrict"}
    /\ ReturnedDocument.blocks /= <<>>



(***************************************************************************)
(* Documents that open with modules lines: known and unknown names, no     *)
(* name, more than one line, after a profile line.                         *)
(***************************************************************************)
ModulesLines ==
    {<<>>, <<"a">>, <<"@", "m", "o", "d", "u", "l", "e", "s", " ", "h", "t", "m", "l">>, <<"@", "m", "o", "d", "u", "l", "e", "s", " ", "b", "o", "g", "u", "s", ",", " ", "m", "a", "t", "h", ",", "h", "t", "m", "l">>, <<"@", "m", "o", "d", "u", "l", "e", "s">>, <<"@", "p", "r", "o", "f", "i", "l", "e", " ", "m", "d">>}

ModulesInputs == InputsOver(ModulesLines, MaxLines)

\* calls one after the other on one Parser, for the documents over ModulesLines
NextModules ==
    \/ (pc = "idle" /\ \E s \in ModulesInputs, o \in Ops : Call(s, o))
    \/ BlocksIter
    \/ Return
    \/ Release

SpecModules == InitLitedoc /\ [][NextModules]_vars

\* the lines of s that are not blank, in order, as <<start, text end, next start>>
NonBlankLines(s) ==
    SelectSeq(LinesFrom(s, 0),
              LAMBDA l : ~(\A k \in l[1]..(l[2] - 1) : ByteAt(s, k) \in {" ", "\t"}))

\* the index in NonBlankLines(s) of the line where a modules line can stand:
\* the first one, or the second when the first is a profile line with a known value
ModulesLineIndex(s) ==
    IF InputFact("OpensWithProfileLine", <<s>>) /\ IsSome(ProfileNamed(InputFact("ProfileLineValue", <<s>>))) THEN 2 ELSE 1

\* the modules line of s, if it has one (an Option)
ModulesLine(s) ==
    LET ls == InputFact("NonBlankLines", <<s>>)
        i == InputFact("ModulesLineIndex", <<s>>)
    IN  IF i <= Len(ls) /\ StartsWith(Trim(Slice(s, ls[i][1], ls[i][2])), <<"@", "m", "o", "d", "u", "l", "e", "s">>)
        THEN Some(ls[i]) ELSE None

\* the module names that the modules line of s declares, unknown tokens dropped
DeclaredModules(s) ==
    LET line == InputFact("ModulesLine", <<s>>)
    IN  IF IsNone(line) THEN <<>>
    ELSE LET l == Unwrap(line)
             tokens == Split(SliceFrom(Trim(Slice(s, l[1], l[2])), 8), ",")
             known == SelectSeq(tokens, LAMBDA t : IsSome(ModuleOf(Trim(t))))
         IN  [i \in 1..Len(known) |-> Unwrap(ModuleOf(Trim(known[i])))]

InputFact(f, a) ==
    CASE f = "FirstNonBlank" -> FirstNonBlank(a[1])
      [] f = "DeclaresHtml" -> DeclaresHtml(a[1])
      [] f = "FirstNonBlankText" -> FirstNonBlankText(a[1])
      [] f = "OpensWithProfileLine" -> OpensWithProfileLine(a[1])
      [] f = "ProfileLineValue" -> ProfileLineValue(a[1])
      [] f = "NonBlankLines" -> NonBlankLines(a[1])
      [] f = "ModulesLineIndex" -> ModulesLineIndex(a[1])
      [] f = "ModulesLine" -> ModulesLine(a[1])
      [] f = "DeclaredModules" -> DeclaredModules(a[1])

AllModules == {"Tables", "Footnotes", "Math", "Tasks", "Strikethrough", "Autolink", "Html"}

(***************************************************************************)
(* C19: the modules of the Document are the recognised names of the one    *)
(* modules line of the input, in the order of the line, unknown tokens     *)
(* dropped, and none when the input has no modules line; one modules line  *)
(* at most is consumed: a non-blank line that follows it starts the first  *)
(* block; after each call has_module holds exactly for the modules of the  *)
(* input of that call.                                                     *)
(***************************************************************************)
C19_DocumentModules ==
    Returned =>
        LET declared == InputFact("DeclaredModules", <<input>>)
            lines == InputFact("NonBlankLines", <<input>>)
            index == InputFact("ModulesLineIndex", <<input>>)
        IN  /\ ReturnedDocument.modules = declared
            /\ {m \in AllModules : HasModule(parser, m)} = {declared[i] : i \in 1..Len(declared)}
            /\ (IsSome(InputFact("ModulesLine", <<input>>)) /\ Len(lines) > index) =>
                   /\ ReturnedDocument.blocks /= <<>>
                   /\ ReturnedDocument.blocks[1].span.start = lines[index + 1][1]

\* a call returned for an input with two modules lines (the first with an unknown
\* name among known ones) on a Parser whose earlier call declared modules
C19_Witness ==
    /\ Returned
    /\ earlier.modules
    /\ ReturnedDocument.modules = <<"Math", "Html">>
    /\ ReturnedDocument.blocks /= <<>>
    /\ StartsWith(Slice(input, ReturnedDocument.blocks[1].span.start, Len(input)), <<"@", "m", "o", "d", "u", "l", "e", "s">>)



(***************************************************************************)
(* Documents of one metadata block with one entry, followed by a           *)
(* paragraph.  The value of the entry is made of at most MaxAttrPieces     *)
(* pieces.                                                                 *)
(***************************************************************************)
AttrPieces ==
    {<<"t", "r", "u", "e">>, <<"f", "a", "l", "s", "e">>, <<"\"">>, <<"'">>, <<"[">>, <<"]">>, <<",">>, <<"1">>, <<"-">>, <<".">>, <<"9", "2", "2", "3", "3", "7", "2", "0", "3", "6", "8", "5", "4", "7", "7", "5", "8", "0", "8">>}

RECURSIVE AttrValues(_)
AttrValues(n) ==
    IF n = 0 THEN {<<>>}
    ELSE AttrValues(n - 1) \cup {v \o q : v \in AttrValues(n - 1), q \in AttrPieces}

\* the document whose metadata block has the entry k with the value text v
MetaDocument(v) == <<"-", "-", "-", " ", "m", "e", "t", "a">> \o <<"\n">> \o <<"k", ":", " ">> \o v \o <<"\n">> \o <<"-", "-", "-">> \o <<"\n">> \o <<"a">>

\* one call on a new Parser, for the documents of one metadata entry
NextMeta ==
    \/ (pc = "idle" /\ \E v \in AttrValues(MaxAttrPieces), o \in Ops : Call(MetaDocument(v), o))
    \/ BlocksIter
    \/ Return

SpecMeta == InitLitedoc /\ [][NextMeta]_vars

\* the trimmed value text of the entry of a document MetaDocument(v)
EntryText(s) == Trim(Slice(s, 11, LinesFrom(s, 9)[1][2]))

\* the kind of AttrValue that the rules, taken in order, give for the value text v
RuleKind(v) ==
    IF v = <<"t", "r", "u", "e">> \/ v = <<"f", "a", "l", "s", "e">> THEN "Bool"
    ELSE IF StartsWith(v, <<"[">>) /\ EndsWith(v, <<"]">>) THEN "List"
    ELSE IF IsSome(ParseI64(v)) THEN "Int"
    ELSE IF Contains(v, <<".">>) /\ IsFloatLiteral(v) THEN "Float"
    ELSE "Str"

\* the Str that the last rule gives: one surrounding pair of matching quotes removed
RuleStr(v) ==
    IF Len(v) >= 2 /\ v[1] = v[Len(v)] /\ v[1] \in {"\"", "'"} THEN SubSeq(v, 2, Len(v) - 1) ELSE v

(***************************************************************************)
(* C20: parse_attr_value is total over the trimmed metadata values: the    *)
(* call returns for every value, and the value of the entry is of the kind *)
(* that the rules give in their order (Bool, List, Int, Float, Str); a Str *)
(* is the value without one surrounding pair of matching quotes, and the   *)
(* value unchanged when it has no such pair, as a single quote character   *)
(* or an integer outside the 64-bit range.                                 *)
(***************************************************************************)
C20_AttrValueTotalAndOrdered ==
    /\ pc /= "panicked"
    /\ Returned =>
           LET v == EntryText(input)
               value == Unwrap(ReturnedDocument.metadata).entries[1][2]
           IN  /\ value.kind = RuleKind(v)
               /\ value.kind = "Str" => value.value = RuleStr(v)



(***************************************************************************)
(* Documents of one table directive: rows, separator lines, rows with      *)
(* leading whitespace, empty cells, a closer and lines that are no rows.   *)
(***************************************************************************)
TableLines ==
    {<<>>, <<"a">>, <<":", ":">>, <<"|", "-", "-", "-", "|">>, <<"|", " ", "a", " ", "|", " ", "b", " ", "|">>, <<" ", " ", "|", " ", "a", " ", "|">>, <<"|", Backquote, "c", Backquote, "|", "|", "*", "b">>}

TableInputs == {<<":", ":", "t", "a", "b", "l", "e">> \o <<"\n">> \o body : body \in InputsOver(TableLines, MaxLines)}

\* one call on a new Parser, for the documents of one table directive
NextTable ==
    \/ (pc = "idle" /\ \E s \in TableInputs, o \in Ops : Call(s, o))
    \/ BlocksIter
    \/ Return

SpecTable == InitLitedoc /\ [][NextTable]_vars

\* the top-level Tables built so far
Tables == {blocks[i] : i \in {j \in 1..Len(blocks) : blocks[j].kind = "Table"}}

\* the separator lines of the input that start in [from, upto), as line starts
SeparatorLines(from, upto) ==
    LET here == LinesFrom(input, from)
    IN  {here[i][1] : i \in {j \in 1..Len(here) :
            /\ here[j][1] < upto
            /\ LET t == Trim(Slice(input, here[j][1], here[j][2]))
               IN  StartsWith(t, <<"|">>) /\ Contains(t, <<"-", "-", "-">>)}}

(***************************************************************************)
(* C21: in every Table a row is a header exactly when it is the first row  *)
(* of the table and no separator line stands before it; a table has at     *)
(* most one header row, and it is the first.                               *)
(***************************************************************************)
C21_HeaderIsFirstRowBeforeSeparator ==
    \A t \in Tables :
        \A i \in 1..Len(t.rows) :
            t.rows[i].header <=>
                (i = 1 /\ SeparatorLines(t.span.start, t.rows[1].span.start) = {})

\* a table with a header row followed by a row that is not one, and a table
\* whose first row comes after a separator line
C21_Witness ==
    /\ pc = "done"
    /\ \E t \in Tables :
           /\ Len(t.rows) >= 2
           /\ t.rows[1].header
           /\ ~t.rows[2].header
           /\ SeparatorLines(t.span.start, t.rows[2].span.start) = {}


\* the Text and CodeSpan nodes of a tree
RECURSIVE TextNodes(_)
TextNodes(node) ==
    LET cs == Children(node)
    IN  (IF node.kind \in {"Text", "CodeSpan"} THEN {node} ELSE {})
            \cup UNION {TextNodes(cs[i]) : i \in 1..Len(cs)}

(***************************************************************************)
(* C22: the spans of inline nodes are offsets into the input: for every    *)
(* Text node of the blocks built so far the input bytes of its span are    *)
(* its content, and for every CodeSpan they are a backtick, its content    *)
(* and a backtick.                                                         *)
(***************************************************************************)
C22_InlineSpansAreInputOffsets ==
    \A i \in 1..Len(blocks) :
        \A n \in TextNodes(blocks[i]) :
            LET bytes == Slice(input, n.span.start, n.span.end)
            IN  IF n.kind = "Text" THEN bytes = n.content
                ELSE bytes = <<Backquote>> \o n.content \o <<Backquote>>


\* the offsets of the '|' bytes of the line of the input that starts at from
PipesOfLine(from) ==
    LET l == LinesFrom(input, from)[1]
    IN  {p \in l[1]..(l[2] - 1) : ByteAt(input, p) = "|"}

\* the TableRows of the top-level Tables built so far
TableRows == UNION {{t.rows[i] : i \in 1..Len(t.rows)} : t \in Tables}

(***************************************************************************)
(* C27: the span of every TableCell is the input bytes between two         *)
(* neighbouring '|' bytes of its row line (or between the last '|' and the *)
(* end of the line), also when the row line has whitespace before its      *)
(* first '|'; the cells of a row are the non-blank such stretches.         *)
(***************************************************************************)
C27_CellSpanBetweenPipes ==
    \A r \in TableRows :
        LET pipes == PipesOfLine(r.span.start)
            stops == pipes \cup {r.span.end}
            between == {<<p + 1, SetMin({q \in stops : q > p})>> : p \in pipes}
            kept == {b \in between : Trim(Slice(input, b[1], b[2])) /= <<>>}
        IN  /\ \A i \in 1..Len(r.cells) : <<r.cells[i].span.start, r.cells[i].span.end>> \in kept
            /\ Len(r.cells) = Cardinality(kept)



(***************************************************************************)
(* A Lexer on its own: Lexer::new(input) for an input of at most MaxBytes  *)
(* bytes, and any interleaving of peek_line, next_line and                 *)
(* skip_blank_lines calls on it.                                           *)
(***************************************************************************)
MaxBytes == 4

LexBytes == {"a", " ", "\n", "\r"}

\* the inputs of at most n bytes
LexInputs(n) == UNION {[1..k -> LexBytes] : k \in 0..n}

\* Lexer::new(input)
InitLexer ==
    /\ parser = ParserNew("Litedoc")
    /\ pc = "idle"
    /\ op = "none"
    /\ input \in LexInputs(MaxBytes)
    /\ lexer = LexerNew
    /\ head = NoHead
    /\ blocks = <<>>
    /\ result = None
    /\ earlier = [errors |-> FALSE, modules |-> FALSE]
    /\ NoRun
    /\ returned = <<>>
    /\ last_call = [call |-> "new"]

\* the lines that the next_line calls of the loop of skip_blank_lines return
RECURSIVE SkipBlankLinesLines(_, _)
SkipBlankLinesLines(s, lx) ==
    LET p == Fn("PeekLine", <<s, lx>>)
    IN  IF IsNone(p.peeked) THEN <<>>
        ELSE IF ~IsBlank(s, Unwrap(p.peeked)) THEN <<>>
        ELSE LET n == Fn("NextLine", <<s, p>>)
             IN  <<Unwrap(n.line)>> \o SkipBlankLinesLines(s, n.lx)

\* a call of Lexer::peek_line
PeekLineCall ==
    /\ lexer' = Fn("PeekLine", <<input, lexer>>)
    /\ last_call' = [call |-> "peek_line", value |-> lexer'.peeked]
    /\ UNCHANGED <<returned, parser, pc, op, input, head, blocks, result, earlier, inlineVars>>

\* a call of Lexer::next_line
NextLineCall ==
    /\ LET r == Fn("NextLine", <<input, lexer>>)
       IN  /\ lexer' = r.lx
           /\ returned' = IF IsSome(r.line) THEN Append(returned, Unwrap(r.line)) ELSE returned
           /\ last_call' = [call |-> "next_line", value |-> r.line]
    /\ UNCHANGED <<parser, pc, op, input, head, blocks, result, earlier, inlineVars>>

\* a call of Lexer::skip_blank_lines; its value is the count of the lines skipped
SkipBlankLinesCall ==
    /\ lexer' = Fn("SkipBlankLines", <<input, lexer>>)
    /\ LET skipped == SkipBlankLinesLines(input, lexer)
       IN  /\ returned' = returned \o skipped
           /\ last_call' = [call |-> "skip_blank_lines", value |-> Some([count |-> Len(skipped)])]
    /\ UNCHANGED <<parser, pc, op, input, head, blocks, result, earlier, inlineVars>>

NextLexer ==
    \/ PeekLineCall
    \/ NextLineCall
    \/ SkipBlankLinesCall

SpecLexer == InitLexer /\ [][NextLexer]_vars

\* the start of a line that a call gave (an Option)
StartOf(v) == IF IsSome(v) THEN Some(Unwrap(v).span.start) ELSE None

(***************************************************************************)
(* C23: under any interleaving of peek_line, next_line and                 *)
(* skip_blank_lines calls, the lines that next_line has returned (the      *)
(* calls made by skip_blank_lines included) are the first lines of the     *)
(* input, in order and each once; peek_line gives the line that next_line  *)
(* returns next, so repeated peeks give the same line; a next_line call    *)
(* gives None only after the last line; and is_eof() holds exactly when    *)
(* every line has been returned.                                           *)
(***************************************************************************)
C23_LinesInOrderOnce ==
    LET lines == LinesFrom(input, 0)
        n == Len(returned)
        upcoming == IF n < Len(lines) THEN Some(lines[n + 1][1]) ELSE None
    IN  /\ n <= Len(lines)
        /\ \A i \in 1..n : returned[i].span.start = lines[i][1]
        /\ last_call.call = "peek_line" => StartOf(last_call.value) = upcoming
        /\ last_call.call = "next_line" =>
               IF IsSome(last_call.value) THEN Unwrap(last_call.value) = returned[n] ELSE n = Len(lines)
        /\ IsEof(input, lexer) <=> n = Len(lines)

\* a line is peeked after a blank line was skipped and a line was returned
C23_Witness ==
    /\ Len(returned) >= 2
    /\ last_call.call = "peek_line"
    /\ IsSome(last_call.value)
    /\ ~IsEof(input, lexer)
    /\ \E i \in 1..Len(returned) : IsBlank(input, returned[i])
    /\ \E i \in 1..Len(returned) : ~IsBlank(input, returned[i])


\* Lexer::offset
Offset(lx) == lx.offset

\* Lexer::remaining
Remaining(s, lx) == SliceFrom(s, lx.offset)

\* the offset just after the lines that next_line has returned and their terminators
ConsumedEnd ==
    IF returned = <<>> THEN 0
    ELSE LinesFrom(input, returned[Len(returned)].span.start)[1][3]

(***************************************************************************)
(* C24: offset() is the offset just after the last line that next_line     *)
(* returned and its terminator, and remaining() is the input from there    *)
(* on; a peek_line call changes neither, so the peeked line is still part  *)
(* of remaining().                                                         *)
(***************************************************************************)
C24_OffsetAfterConsumed ==
    /\ Offset(lexer) = ConsumedEnd
    /\ Remaining(input, lexer) = SliceFrom(input, ConsumedEnd)

\* the offsets of the CR bytes of the input that no LF follows
LoneCrs == {p \in 0..(Len(input) - 1) :
               ByteAt(input, p) = "\r" /\ (p + 1 = Len(input) \/ ByteAt(input, p + 1) /= "\n")}

(***************************************************************************)
(* C25: a line ends only at "\n" or "\r\n" (or at the end of the input):   *)
(* the span of every line returned ends where such a terminator starts,    *)
(* and once every line has been returned, each CR byte that no LF follows, *)
(* a CR that is the last byte of the input included, lies in the span of a *)
(* line.                                                                   *)
(***************************************************************************)
C25_LoneCrIsLineText ==
    /\ \A i \in 1..Len(returned) :
           LET e == returned[i].span.end
           IN  \/ e = Len(input)
               \/ ByteAt(input, e) = "\n"
               \/ (ByteAt(input, e) = "\r" /\ e + 1 < Len(input) /\ ByteAt(input, e + 1) = "\n")
    /\ IsEof(input, lexer) =>
           \A p \in LoneCrs :
               \E i \in 1..Len(returned) : returned[i].span.start <= p /\ p < returned[i].span.end



(***************************************************************************)
(* Documents of one list directive: items, continuation lines, blank       *)
(* lines, the closer and block-starter lines.                              *)
(***************************************************************************)
ListLines ==
    {<<>>, <<"-", " ", "a">>, <<"|", " ", "b">>, <<":", ":">>, <<":", ":", "q", "u", "o", "t", "e">>, <<"#", " ", "h">>, <<"-", "-", "-">>, <<Backquote, Backquote, Backquote>>,
     <<"@", "p", "r", "o", "f", "i", "l", "e", " ", "x">>, <<"@", "m", "o", "d", "u", "l", "e", "s", " ", "y">>}

ListInputs == {<<":", ":", "l", "i", "s", "t">> \o <<"\n">> \o body : body \in InputsOver(ListLines, MaxLines)}

\* one call of parse_with_recovery on a new Parser, for the documents of one list directive
NextList ==
    \/ (pc = "idle" /\ \E s \in ListInputs : Call(s, "parse_with_recovery"))
    \/ BlocksIter
    \/ Return

SpecList == InitLitedoc /\ [][NextList]_vars

\* the trimmed text of a line <<start, text end, next start>> of the input
TrimmedLine(l) == Trim(Slice(input, l[1], l[2]))

\* the line belongs to the body of a list: an item, a continuation or a blank line
IsListBodyLine(l) ==
    \/ StartsWith(TrimmedLine(l), <<"-", " ">>)
    \/ StartsWith(TrimmedLine(l), <<"|", " ">>)
    \/ \A p \in l[1]..(l[2] - 1) : ByteAt(input, p) \in {" ", "\t"}

\* a block-starter line other than the closer
IsBlockStarter(t) ==
    /\ t /= <<":", ":">>
    /\ \/ StartsWith(t, <<":", ":">>)
       \/ StartsWith(t, <<Backquote, Backquote, Backquote>>)
       \/ StartsWith(t, <<"#">>)
       \/ t = <<"-", "-", "-">>
       \/ StartsWith(t, <<"@", "p", "r", "o", "f", "i", "l", "e">>)
       \/ StartsWith(t, <<"@", "m", "o", "d", "u", "l", "e", "s">>)

\* what the input holds for the top-level List blocks[i]: the lines from its
\* opener on, and the index of the first line after the opener that is no
\* body line (0 when no such line follows)
ListFacts(i) ==
    LET here == LinesFrom(input, blocks[i].span.start)
        stops == {j \in 2..Len(here) : ~IsListBodyLine(here[j])}
    IN  [here |-> here, stop |-> IF stops = {} THEN 0 ELSE SetMin(stops)]

\* the indices of the top-level Lists built so far
ListIndices == {i \in 1..Len(blocks) : blocks[i].kind = "List"}

(***************************************************************************)
(* C26: when the body of a ::list meets a block-starter line other than    *)
(* the closer, exactly one UnclosedDelimiter error for ::list is recorded  *)
(* at the opener, the List holds the items of the body lines before that   *)
(* line and ends before it, and the line is not consumed: the next         *)
(* top-level block starts at it.  Blank lines of the body do not end the   *)
(* list.                                                                   *)
(***************************************************************************)
C26_ListEndsAtBlockStarter ==
    \A i \in ListIndices :
        LET f == ListFacts(i)
            here == f.here
            opener == Span(here[1][1], here[1][2])
            unclosed == {k \in 1..Len(RecordedErrors) :
                            /\ RecordedErrors[k].kind = "UnclosedDelimiter"
                            /\ RecordedErrors[k].span = Some(opener)
                            /\ Contains(RecordedErrors[k].message, <<":", ":", "l", "i", "s", "t">>)}
        IN  (f.stop /= 0 /\ IsBlockStarter(TrimmedLine(here[f.stop]))) =>
                /\ Cardinality(unclosed) = 1
                /\ Len(blocks[i].items) =
                       Cardinality({j \in 2..(f.stop - 1) : StartsWith(TrimmedLine(here[j]), <<"-", " ">>)})
                /\ blocks[i].span.end <= here[f.stop][1]
                /\ IF i < Len(blocks) THEN blocks[i + 1].span.start = here[f.stop][1]
                   ELSE pc = "blocks" /\ NextStart(lexer) = here[f.stop][1]

\* a list with a blank line and an item after it is ended by a heading line,
\* and the heading is the next block
C26_Witness ==
    /\ pc = "done"
    /\ Len(blocks) = 2
    /\ blocks[1].kind = "List"
    /\ Len(blocks[1].items) = 1
    /\ blocks[2].kind = "Heading"
    /\ LET f == ListFacts(1)
       IN  /\ f.stop = 4
           /\ TrimmedLine(f.here[2]) = <<>>

(***************************************************************************)
(* C29: the number of ListItems of a ::list is the number of its consumed  *)
(* body lines whose trimmed text starts with "- ", however the list ends:  *)
(* by the closer, by a line that is no body line, or by the end of the     *)
(* input.                                                                  *)
(***************************************************************************)
C29_OneItemPerDashLine ==
    \A i \in ListIndices :
        LET f == ListFacts(i)
            upto == IF f.stop = 0 THEN Len(f.here) ELSE f.stop - 1
        IN  Len(blocks[i].items) =
                Cardinality({j \in 2..upto : StartsWith(TrimmedLine(f.here[j]), <<"-", " ">>)})


\* the length of the delimiters of an Emphasis, Strong or Strikethrough node
DelimiterLen(kind) == IF kind = "Emphasis" THEN 1 ELSE 2

(***************************************************************************)
(* C28: in every Emphasis, Strong or Strikethrough node, at every depth,   *)
(* the byte after the opening delimiter and the byte before the closing    *)
(* delimiter are not a space and the content between them is not empty;    *)
(* "* a*" and "*a *" parse to Text only, "*a*" to one Emphasis.            *)
(***************************************************************************)
C28_DelimitedContentHasNoOuterSpace ==
    IsSome(inlines) =>
        /\ \A n \in InlineNodes(Unwrap(inlines)) :
               n[1] \in {"Emphasis", "Strong", "Strikethrough"} =>
                   LET d == DelimiterLen(n[1])
                       a == n[2].start - base_offset
                       b == n[2].end - base_offset
                   IN  /\ b - a > 2 * d
                       /\ ByteAt(text, a + d) /= " "
                       /\ ByteAt(text, b - d - 1) /= " "
        /\ text \in {<<"*", " ", "a", "*">>, <<"*", "a", " ", "*">>} =>
               \A i \in 1..Len(Unwrap(inlines)) : Unwrap(inlines)[i].kind = "Text"
        /\ text = <<"*", "a", "*">> =>
               (Len(Unwrap(inlines)) = 1 /\ Unwrap(inlines)[1].kind = "Emphasis")

\* the run "*a*" has given its Emphasis node
C28_Witness ==
    /\ IsSome(inlines)
    /\ text = <<"*", "a", "*">>
    /\ InlineNodes(Unwrap(inlines)) = {<<"Emphasis", Span(base_offset, base_offset + 3)>>,
                                       <<"Text", Span(base_offset + 1, base_offset + 2)>>}

(***************************************************************************)
(* C30: the top-level nodes that parse_inlines returns for a non-empty run *)
(* tile it: the first span starts at base_offset, each span starts where   *)
(* the one before it ends, the last ends at base_offset + text.len(), no   *)
(* span is empty, no Text node has empty content, and no two Text nodes    *)
(* are neighbours.                                                         *)
(***************************************************************************)
C30_TopLevelNodesTileTheRun ==
    (IsSome(inlines) /\ text /= <<>>) =>
        LET ns == Unwrap(inlines)
        IN  /\ ns /= <<>>
            /\ ns[1].span.start = base_offset
            /\ ns[Len(ns)].span.end = base_offset + Len(text)
            /\ \A i \in 1..Len(ns) :
                   /\ ns[i].span.start < ns[i].span.end
                   /\ ns[i].kind = "Text" => ns[i].content /= <<>>
            /\ \A i \in 1..(Len(ns) - 1) :
                   /\ ns[i].span.end = ns[i + 1].span.start
                   /\ ~(ns[i].kind = "Text" /\ ns[i + 1].kind = "Text")

\* a run where a targeted parse failed and one succeeded: text, a node, text
C30_Witness ==
    /\ IsSome(inlines)
    /\ base_offset = 3
    /\ Len(Unwrap(inlines)) = 3
    /\ Unwrap(inlines)[1].kind = "Text"
    /\ Contains(Unwrap(inlines)[1].content, <<"*">>)
    /\ Unwrap(inlines)[2].kind /= "Text"
    /\ Unwrap(inlines)[3].kind = "Text"

====
